---- MODULE Spec2Model ----
(***************************************************************************)
(* Exact-rational linear algebra calculator: Fraction arithmetic, the      *)
(* cofactor (Laplace) engines, the elimination engines, Cramer's rule and  *)
(* the adjugate inverse, each returning a numbered step trace.             *)
(*                                                                         *)
(* Representation.  A JavaScript number and a Fraction are both written as *)
(* a record [numerator, denominator] in lowest terms: for a Fraction these *)
(* are its two fields, for a number the record is the exact value of the   *)
(* double: the rounding of floating arithmetic is left out, so equality   *)
(* here is equality within the floating tolerance there.  A number whose   *)
(* denominator is 0 is a non-finite double                                 *)
(* (Infinity or NaN).  Integers here are 32 bits wide, so every nonzero    *)
(* value the model can hold has magnitude above 1/2^31 > 1e-10: the test   *)
(* Math.abs(x) < 1e-10 of the floating engines is x = 0 on these values,   *)
(* and Math.abs(x) > 1e-10 is x # 0.                                       *)
(* Rows, columns and step ids are counted from 1 (the code counts rows and *)
(* columns from 0); the cofactor sign (-1)^(i+j) is the same either way.   *)
(*                                                                         *)
(* Notation.  CHOOSE value \in {e(x) : x \in {v}} : TRUE is e(v), where x  *)
(* names the value of v, computed once, as a const declaration of the code *)
(* does.                                                                   *)
(***************************************************************************)
EXTENDS Integers, Sequences, FiniteSets, TLC

VARIABLES matrix, constants, entry, steps, result, writes, fa, fb, fr,
          size, mode, method, currentStep, isPlaying

\* The state of the page: the size field, the mode and the method chosen,
\* and the step and the play flag of the step playback.
ui == <<size, mode, method, currentStep, isPlaying>>

vars == <<matrix, constants, entry, steps, result, writes, fa, fb, fr, ui>>

(***************************************************************************)
(* Bounds of the model.                                                    *)
(***************************************************************************)
MaxN == 3
MaxVal == 2
MaxFrac == 4

Abs(x) == IF x < 0 THEN -x ELSE x

(***************************************************************************)
(* Fraction (src/utils/fraction.ts)                                        *)
(***************************************************************************)
\* The value an operation has when it raised an Error instead of returning.
Thrown == [numerator |-> 0, denominator |-> 0]

isThrown(f) == f.numerator = 0 /\ f.denominator = 0

RECURSIVE gcd(_, _)
gcd(a, b) == IF b = 0 THEN a ELSE gcd(b, a % b)

\* A constructor that forgets to move the sign to the numerator.
FractionNoSign(numerator, denominator) ==
  IF denominator = 0 THEN Thrown
  ELSE CHOOSE this \in
         {[numerator |-> num, denominator |-> den] :
            num \in {numerator \div gcd(Abs(numerator), Abs(denominator))},
            den \in {denominator \div gcd(Abs(numerator), Abs(denominator))}} : TRUE

\* num and den are this.numerator and this.denominator after the division by
\* the gcd and before the sign is moved.
Fraction(numerator, denominator) ==
  IF denominator = 0 THEN Thrown
  ELSE CHOOSE this \in
         {IF den < 0
          THEN [numerator |-> -num, denominator |-> -den]
          ELSE [numerator |-> num, denominator |-> den] :
            num \in {numerator \div gcd(Abs(numerator), Abs(denominator))},
            den \in {denominator \div gcd(Abs(numerator), Abs(denominator))}} : TRUE

add(this, other) ==
  Fraction(this.numerator * other.denominator + other.numerator * this.denominator,
           this.denominator * other.denominator)

\* The subtraction with its operands exchanged.
subtractFrom(this, other) ==
  Fraction(other.numerator * this.denominator - this.numerator * other.denominator,
           this.denominator * other.denominator)

subtract(this, other) ==
  Fraction(this.numerator * other.denominator - other.numerator * this.denominator,
           this.denominator * other.denominator)

multiply(this, other) ==
  Fraction(this.numerator * other.numerator, this.denominator * other.denominator)

\* A division that answers zero when the divisor is zero.
divideQuiet(this, other) ==
  IF other.numerator = 0 THEN [numerator |-> 0, denominator |-> 1]
  ELSE Fraction(this.numerator * other.denominator, this.denominator * other.numerator)

divide(this, other) ==
  IF other.numerator = 0 THEN Thrown
  ELSE Fraction(this.numerator * other.denominator, this.denominator * other.numerator)

isInteger(this) == this.denominator = 1

isZero(this) == this.numerator = 0

abs(this) == Fraction(Abs(this.numerator), this.denominator)

negate(this) == Fraction(-this.numerator, this.denominator)

equals(this, other) ==
  this.numerator = other.numerator /\ this.denominator = other.denominator

lessThan(this, other) ==
  this.numerator * other.denominator < other.numerator * this.denominator

clone(this) == Fraction(this.numerator, this.denominator)

(***************************************************************************)
(* JavaScript numbers                                                      *)
(***************************************************************************)
NonFinite == [numerator |-> 1, denominator |-> 0]

isFinite(x) == x.denominator # 0

Num(k) == [numerator |-> k, denominator |-> 1]

\* x + y, x - y, x * y and x / y on doubles.  A non-finite operand gives a
\* non-finite result in every use the engines make of them, and x / 0 is
\* Infinity or NaN, never an Error.
NumAdd(x, y) == IF isFinite(x) /\ isFinite(y) THEN add(x, y) ELSE NonFinite

NumSub(x, y) == IF isFinite(x) /\ isFinite(y) THEN subtract(x, y) ELSE NonFinite

NumMul(x, y) == IF isFinite(x) /\ isFinite(y) THEN multiply(x, y) ELSE NonFinite

NumDiv(x, y) ==
  IF isFinite(x) /\ isFinite(y) /\ y.numerator # 0 THEN divide(x, y) ELSE NonFinite

NumNeg(x) == IF isFinite(x) THEN negate(x) ELSE NonFinite

\* Math.abs(x) < 1e-10
nearZero(x) == isFinite(x) /\ x.numerator = 0

\* Math.abs(x) > 1e-10 (the engines apply it to finite values only)
notNearZero(x) == isFinite(x) /\ x.numerator # 0

\* Math.abs(x) > Math.abs(y)
NumAbsGreater(x, y) ==
  Abs(x.numerator) * y.denominator > Abs(y.numerator) * x.denominator

toDecimal(this) == NumDiv(Num(this.numerator), Num(this.denominator))

\* Fraction.fromDecimal on a double of integer value: the zero and the
\* Number.isInteger branches.
fromDecimal(decimal) ==
  IF decimal.numerator = 0 THEN Fraction(0, 1)
  ELSE LET sign == IF decimal.numerator < 0 THEN -1 ELSE 1
       IN  Fraction(sign * Abs(decimal.numerator), 1)

\* maxDenominator when the caller gives none.
DefaultMaxDenominator == 10000

\* A convergent step that forgets the convergent before the last one.
Fraction_fromDecimalStepShort(st, maxDenominator) ==
  CHOOSE value \in
    {[h1 |-> a * st.h1, h2 |-> st.h1,
      k1 |-> a * st.k1 + st.k2, k2 |-> st.k1,
      x |-> IF a * st.k1 + st.k2 > maxDenominator THEN st.x
            ELSE NumDiv(Num(1), NumSub(st.x, Num(a))),
      broke |-> a * st.k1 + st.k2 > maxDenominator] :
       a \in {st.x.numerator \div st.x.denominator}} : TRUE

\* One pass of the do-while loop of fromDecimal: a is Math.floor(x), h1/k1
\* the next convergent; the pass breaks off, with h1 and k1 already moved
\* on, when k1 exceeds maxDenominator, and else x becomes 1 / (x - a)
\* (Infinity when x is a whole number).
Fraction_fromDecimalStep(st, maxDenominator) ==
  CHOOSE value \in
    {[h1 |-> a * st.h1 + st.h2, h2 |-> st.h1,
      k1 |-> a * st.k1 + st.k2, k2 |-> st.k1,
      x |-> IF a * st.k1 + st.k2 > maxDenominator THEN st.x
            ELSE NumDiv(Num(1), NumSub(st.x, Num(a))),
      broke |-> a * st.k1 + st.k2 > maxDenominator] :
       a \in {st.x.numerator \div st.x.denominator}} : TRUE

\* The loop, until the break or until its condition fails.  On the values
\* of the model a convergent other than decimal is off by far more than
\* 1e-10, so Math.abs(decimal - h1 / k1) > 1e-10 is decimal # h1 / k1.
RECURSIVE Fraction_fromDecimalLoop(_, _, _)
Fraction_fromDecimalLoop(decimal, st, maxDenominator) ==
  CHOOSE value \in
    {IF next.broke
        \/ ~(decimal # NumDiv(Num(next.h1), Num(next.k1)) /\ isFinite(next.x))
     THEN next
     ELSE Fraction_fromDecimalLoop(decimal, next, maxDenominator) :
       next \in {Fraction_fromDecimalStep(st, maxDenominator)}} : TRUE

\* Fraction.fromDecimal(decimal, maxDenominator) on any finite double.
Fraction_fromDecimal(decimal, maxDenominator) ==
  IF decimal.numerator = 0 \/ decimal.denominator = 1
  THEN fromDecimal(decimal)
  ELSE CHOOSE value \in
         {Fraction(sign * st.h1, st.k1) :
            sign \in {IF decimal.numerator < 0 THEN -1 ELSE 1},
            st \in {Fraction_fromDecimalLoop(abs(decimal),
                      [h1 |-> 1, h2 |-> 0, k1 |-> 0, k2 |-> 1, x |-> abs(decimal),
                       broke |-> FALSE], maxDenominator)}} : TRUE

(***************************************************************************)
(* CalculationStep.  storage names the array object the step's matrix      *)
(* field refers to: "copy" for an array built for the step (cloneMatrix,   *)
(* map, slice), "input" for the caller's own matrix.  row and col are the  *)
(* position the step is about (0 when it has none).                        *)
(***************************************************************************)
Step(id, title, m, storage, row, col) ==
  [id |-> id, title |-> title, matrix |-> m, storage |-> storage,
   row |-> row, col |-> col]

RemoveAt(s, k) == [i \in 1..(Len(s) - 1) |-> IF i < k THEN s[i] ELSE s[i + 1]]

(***************************************************************************)
(* MatrixMath (src/utils/laplaceExpansion.ts)                              *)
(***************************************************************************)
MatrixMath_cloneMatrix(m) == [i \in 1..Len(m) |-> [j \in 1..Len(m[i]) |-> m[i][j]]]

MatrixMath_cloneVector(v) == [i \in 1..Len(v) |-> v[i]]

MatrixMath_swapRows(m, row1, row2) ==
  CHOOSE value \in
    {[res EXCEPT ![row1] = res[row2], ![row2] = res[row1]] :
       res \in {MatrixMath_cloneMatrix(m)}} : TRUE

MatrixMath_swapVectorElements(v, index1, index2) ==
  CHOOSE value \in
    {[res EXCEPT ![index1] = res[index2], ![index2] = res[index1]] :
       res \in {MatrixMath_cloneVector(v)}} : TRUE

MatrixMath_addRowMultiple(m, targetRow, sourceRow, multiplier) ==
  CHOOSE value \in
    {[res EXCEPT ![targetRow] =
        [j \in 1..Len(m[1]) |->
           NumAdd(res[targetRow][j], NumMul(res[sourceRow][j], multiplier))]] :
       res \in {MatrixMath_cloneMatrix(m)}} : TRUE

\* One pass of the loop of findPivot: the row and the value of the best pivot.
MatrixMath_findPivotRow(m, col, i, max) ==
  IF NumAbsGreater(m[i][col], max.value)
  THEN [row |-> i, value |-> m[i][col]]
  ELSE max

RECURSIVE MatrixMath_findPivotFrom(_, _, _, _)
MatrixMath_findPivotFrom(m, col, i, max) ==
  IF i > Len(m) THEN max.row
  ELSE CHOOSE maxRow \in
         {MatrixMath_findPivotFrom(m, col, i + 1, next) :
            next \in {MatrixMath_findPivotRow(m, col, i, max)}} : TRUE

MatrixMath_findPivot(m, startRow, col) ==
  MatrixMath_findPivotFrom(m, col, startRow + 1,
                           [row |-> startRow, value |-> m[startRow][col]])

MatrixMath_getMinor(m, excludeRow, excludeCol) ==
  [i \in 1..(Len(m) - 1) |->
     RemoveAt(m[IF i < excludeRow THEN i ELSE i + 1], excludeCol)]

MatrixMath_createAugmentedMatrix(coefficientMatrix, constantVector) ==
  [i \in 1..Len(coefficientMatrix) |->
     Append(coefficientMatrix[i], constantVector[i])]

\* A cofactor sign that forgets the column.
SignByRow(i, j) == IF i % 2 = 0 THEN 1 ELSE -1

\* Math.pow(-1, i + j)
Sign(i, j) == IF (i + j) % 2 = 0 THEN 1 ELSE -1

(***************************************************************************)
(* LaplaceExpansion (src/utils/laplaceExpansion.ts)                        *)
(***************************************************************************)
ZerosInRow(m, i) == Cardinality({j \in 1..Len(m) : nearZero(m[i][j])})

ZerosInCol(m, j) == Cardinality({i \in 1..Len(m) : nearZero(m[i][j])})

\* The two scans of findOptimalExpansionRowOrColumn, rows and then columns:
\* a strictly greater count replaces the best so far.
RECURSIVE ScanRows(_, _, _)
ScanRows(zeros, i, best) ==
  IF i > Len(zeros) THEN best
  ELSE IF zeros[i] > best.zeroCount
       THEN ScanRows(zeros, i + 1, [type |-> "row", index |-> i, zeroCount |-> zeros[i]])
       ELSE ScanRows(zeros, i + 1, best)

\* A column scan that lets a column take over on a tie.
RECURSIVE ScanColsTies(_, _, _)
ScanColsTies(zeros, j, best) ==
  IF j > Len(zeros) THEN best
  ELSE IF zeros[j] >= best.zeroCount
       THEN ScanColsTies(zeros, j + 1, [type |-> "column", index |-> j, zeroCount |-> zeros[j]])
       ELSE ScanColsTies(zeros, j + 1, best)

RECURSIVE ScanCols(_, _, _)
ScanCols(zeros, j, best) ==
  IF j > Len(zeros) THEN best
  ELSE IF zeros[j] > best.zeroCount
       THEN ScanCols(zeros, j + 1, [type |-> "column", index |-> j, zeroCount |-> zeros[j]])
       ELSE ScanCols(zeros, j + 1, best)

LaplaceExpansion_findOptimalExpansionRowOrColumn(m) ==
  ScanCols([j \in 1..Len(m) |-> ZerosInCol(m, j)], 1,
    ScanRows([i \in 1..Len(m) |-> ZerosInRow(m, i)], 1,
             [type |-> "row", index |-> 1, zeroCount |-> 0]))

Det2(m) == NumSub(NumMul(m[1][1], m[2][2]), NumMul(m[1][2], m[2][1]))

RECURSIVE LaplaceExpansion_expandByRow(_, _, _, _, _)
RECURSIVE LaplaceExpansion_expandByRowTerms(_, _, _, _, _)

\* One pass of the loop over the entries of the chosen row; acc is the
\* running determinant, the trace and currentStepId.
LaplaceExpansion_expandByRowTerm(m, row, j, level, acc) ==
  IF nearZero(m[row][j])
  THEN [acc EXCEPT
          !.steps = Append(@, Step(acc.id, "Termino Omitido",
                                   MatrixMath_cloneMatrix(m), "copy", row, j)),
          !.id = @ + 1]
  ELSE CHOOSE value \in
         {[determinant |-> NumAdd(acc.determinant,
                             NumMul(m[row][j],
                                    NumMul(Num(Sign(row, j)), minorResult.determinant))),
           steps |-> minorResult.steps \o
                       <<Step(minorResult.nextStepId, "Cofactor",
                              MatrixMath_cloneMatrix(m), "copy", row, j),
                         Step(minorResult.nextStepId + 1, "Contribucion",
                              MatrixMath_cloneMatrix(m), "copy", row, j)>>,
           id |-> minorResult.nextStepId + 2] :
            minorResult \in
              {LaplaceExpansion_expandByRow(minor,
                 LaplaceExpansion_findOptimalExpansionRowOrColumn(minor).index,
                 acc.steps \o
                   <<Step(acc.id, "Calculo de Menor",
                          MatrixMath_cloneMatrix(m), "copy", row, j),
                     Step(acc.id + 1, "Menor Resultante",
                          MatrixMath_cloneMatrix(minor), "copy", row, j)>>,
                 acc.id + 2, level + 1) :
                 minor \in {MatrixMath_getMinor(m, row, j)}}} : TRUE

\* The loop over the entries of the chosen row, from entry j on.
LaplaceExpansion_expandByRowTerms(m, row, j, level, acc) ==
  IF j > Len(m) THEN acc
  ELSE CHOOSE value \in
         {LaplaceExpansion_expandByRowTerms(m, row, j + 1, level, next) :
            next \in {LaplaceExpansion_expandByRowTerm(m, row, j, level, acc)}} : TRUE

LaplaceExpansion_expandByRow(m, row, steps0, stepCounter, level) ==
  IF Len(m) = 1
  THEN [determinant |-> m[1][1], nextStepId |-> stepCounter + 1,
        steps |-> Append(steps0, Step(stepCounter, "Matriz 1x1",
                                      MatrixMath_cloneMatrix(m), "copy", 0, 0))]
  ELSE IF Len(m) = 2
  THEN [determinant |-> Det2(m), nextStepId |-> stepCounter + 1,
        steps |-> Append(steps0, Step(stepCounter, "Determinante 2x2",
                                      MatrixMath_cloneMatrix(m), "copy", 0, 0))]
  ELSE CHOOSE value \in
         {[determinant |-> acc.determinant, nextStepId |-> acc.id + 1,
           steps |-> Append(acc.steps, Step(acc.id, "Determinante (Nivel)",
                                            MatrixMath_cloneMatrix(m), "copy", row, 0))] :
            acc \in
              {LaplaceExpansion_expandByRowTerms(m, row, 1, level,
                 [determinant |-> Num(0),
                  steps |-> Append(steps0, Step(stepCounter, "Formula de Expansion por Fila",
                                                MatrixMath_cloneMatrix(m), "copy", row, 0)),
                  id |-> stepCounter + 1])}} : TRUE

RECURSIVE LaplaceExpansion_expandByColumn(_, _, _, _, _)
RECURSIVE LaplaceExpansion_expandByColumnTerms(_, _, _, _, _)

\* One pass of the loop over the entries of the chosen column.
LaplaceExpansion_expandByColumnTerm(m, col, i, level, acc) ==
  IF nearZero(m[i][col])
  THEN [acc EXCEPT
          !.steps = Append(@, Step(acc.id, "Termino Omitido",
                                   MatrixMath_cloneMatrix(m), "copy", i, col)),
          !.id = @ + 1]
  ELSE CHOOSE value \in
         {[determinant |-> NumAdd(acc.determinant,
                             NumMul(m[i][col],
                                    NumMul(Num(Sign(i, col)), minorResult.determinant))),
           steps |-> minorResult.steps \o
                       <<Step(minorResult.nextStepId, "Cofactor",
                              MatrixMath_cloneMatrix(m), "copy", i, col),
                         Step(minorResult.nextStepId + 1, "Contribucion",
                              MatrixMath_cloneMatrix(m), "copy", i, col)>>,
           id |-> minorResult.nextStepId + 2] :
            minorResult \in
              {LaplaceExpansion_expandByColumn(minor,
                 LaplaceExpansion_findOptimalExpansionRowOrColumn(minor).index,
                 acc.steps \o
                   <<Step(acc.id, "Calculo de Menor",
                          MatrixMath_cloneMatrix(m), "copy", i, col),
                     Step(acc.id + 1, "Menor Resultante",
                          MatrixMath_cloneMatrix(minor), "copy", i, col)>>,
                 acc.id + 2, level + 1) :
                 minor \in {MatrixMath_getMinor(m, i, col)}}} : TRUE

\* The loop over the entries of the chosen column, from entry i on.
LaplaceExpansion_expandByColumnTerms(m, col, i, level, acc) ==
  IF i > Len(m) THEN acc
  ELSE CHOOSE value \in
         {LaplaceExpansion_expandByColumnTerms(m, col, i + 1, level, next) :
            next \in {LaplaceExpansion_expandByColumnTerm(m, col, i, level, acc)}} : TRUE

LaplaceExpansion_expandByColumn(m, col, steps0, stepCounter, level) ==
  IF Len(m) = 1
  THEN [determinant |-> m[1][1], nextStepId |-> stepCounter + 1,
        steps |-> Append(steps0, Step(stepCounter, "Matriz 1x1",
                                      MatrixMath_cloneMatrix(m), "copy", 0, 0))]
  ELSE IF Len(m) = 2
  THEN [determinant |-> Det2(m), nextStepId |-> stepCounter + 1,
        steps |-> Append(steps0, Step(stepCounter, "Determinante 2x2",
                                      MatrixMath_cloneMatrix(m), "copy", 0, 0))]
  ELSE CHOOSE value \in
         {[determinant |-> acc.determinant, nextStepId |-> acc.id + 1,
           steps |-> Append(acc.steps, Step(acc.id, "Determinante (Nivel)",
                                            MatrixMath_cloneMatrix(m), "copy", 0, col))] :
            acc \in
              {LaplaceExpansion_expandByColumnTerms(m, col, 1, level,
                 [determinant |-> Num(0),
                  steps |-> Append(steps0, Step(stepCounter, "Formula de Expansion por Columna",
                                                MatrixMath_cloneMatrix(m), "copy", 0, col)),
                  id |-> stepCounter + 1])}} : TRUE

RECURSIVE LaplaceExpansion_calculateSimpleDeterminant(_)

\* One pass of the loop of calculateSimpleDeterminant over the entries of
\* the optimal row or column: a zero entry is passed over.
LaplaceExpansion_simpleTerm(m, optimal, k, determinant) ==
  CHOOSE value \in
    {IF nearZero(m[at[1]][at[2]])
     THEN determinant
     ELSE NumAdd(determinant,
                 NumMul(NumMul(Num(Sign(at[1], at[2])), m[at[1]][at[2]]),
                        LaplaceExpansion_calculateSimpleDeterminant(
                          MatrixMath_getMinor(m, at[1], at[2])))) :
       at \in {IF optimal.type = "row" THEN <<optimal.index, k>>
                                       ELSE <<k, optimal.index>>}} : TRUE

RECURSIVE LaplaceExpansion_simpleTerms(_, _, _, _)
LaplaceExpansion_simpleTerms(m, optimal, k, determinant) ==
  IF k > Len(m) THEN determinant
  ELSE CHOOSE value \in
         {LaplaceExpansion_simpleTerms(m, optimal, k + 1, next) :
            next \in {LaplaceExpansion_simpleTerm(m, optimal, k, determinant)}} : TRUE

\* The determinant without a trace.  The minor of a 1x1 matrix is the
\* empty matrix, whose loop has no pass: 0.
LaplaceExpansion_calculateSimpleDeterminant(m) ==
  IF Len(m) = 1 THEN m[1][1]
  ELSE IF Len(m) = 2 THEN Det2(m)
  ELSE LaplaceExpansion_simpleTerms(m,
         LaplaceExpansion_findOptimalExpansionRowOrColumn(m), 1, Num(0))

\* The sign written before term k of the formula: the sign of the position,
\* alone before the first term and between blanks before the others.
DisplaySign(first, signValue) ==
  IF first THEN (IF signValue > 0 THEN "" ELSE "-")
  ELSE (IF signValue > 0 THEN " + " ELSE " - ")

\* The formula `det = ...` as the sequence of its terms
\* `${displaySign}(${literal}) x (${minorDet})`, where literal is
\* formatNumber(Math.abs(value), 4).
LaplaceExpansion_buildExpansionFormulaWithValues(m, index, type) ==
  [k \in 1..Len(m) |->
     CHOOSE term \in
       {[displaySign |-> DisplaySign(k = 1, Sign(at[1], at[2])),
         literal |-> [numerator |-> Abs(m[at[1]][at[2]].numerator),
                      denominator |-> m[at[1]][at[2]].denominator],
         minorDet |-> LaplaceExpansion_calculateSimpleDeterminant(
                        MatrixMath_getMinor(m, at[1], at[2]))] :
          at \in {IF type = "row" THEN <<index, k>> ELSE <<k, index>>}} : TRUE]

\* res.nextStepId is not part of the result.
LaplaceExpansion_calculateDeterminant(m) ==
  CHOOSE value \in
    {CHOOSE returned \in
       {[steps |-> res.steps, determinant |-> res.determinant,
         expansionFormula |->
           LaplaceExpansion_buildExpansionFormulaWithValues(m, optimal.index,
                                                            optimal.type)] :
          res \in
            {IF optimal.type = "row"
             THEN LaplaceExpansion_expandByRow(m, optimal.index,
                    <<Step(1, "Matriz Original", MatrixMath_cloneMatrix(m), "copy", 0, 0),
                      Step(2, "Seleccion de Fila/Columna Optima",
                           MatrixMath_cloneMatrix(m), "copy", optimal.index, 0)>>, 3, 1)
             ELSE LaplaceExpansion_expandByColumn(m, optimal.index,
                    <<Step(1, "Matriz Original", MatrixMath_cloneMatrix(m), "copy", 0, 0),
                      Step(2, "Seleccion de Fila/Columna Optima",
                           MatrixMath_cloneMatrix(m), "copy", 0, optimal.index)>>, 3, 1)}} :
       TRUE :
       optimal \in {LaplaceExpansion_findOptimalExpansionRowOrColumn(m)}} : TRUE

(***************************************************************************)
(* FractionMatrixUtils (src/utils/fraction.ts)                             *)
(***************************************************************************)
FractionMatrixUtils_fromNumberMatrix(m) ==
  [i \in 1..Len(m) |-> [j \in 1..Len(m[i]) |-> fromDecimal(m[i][j])]]

FractionMatrixUtils_fromNumberVector(v) == [i \in 1..Len(v) |-> fromDecimal(v[i])]

FractionMatrixUtils_toNumberMatrix(m) ==
  [i \in 1..Len(m) |-> [j \in 1..Len(m[i]) |-> toDecimal(m[i][j])]]

FractionMatrixUtils_toNumberVector(v) == [i \in 1..Len(v) |-> toDecimal(v[i])]

FractionMatrixUtils_cloneMatrix(m) ==
  [i \in 1..Len(m) |-> [j \in 1..Len(m[i]) |-> clone(m[i][j])]]

FractionMatrixUtils_createAugmentedMatrix(coeffMatrix, constantVector) ==
  [i \in 1..Len(coeffMatrix) |-> Append(coeffMatrix[i], constantVector[i])]

FractionMatrixUtils_swapRows(m, row1, row2) ==
  CHOOSE value \in
    {[res EXCEPT ![row1] = res[row2], ![row2] = res[row1]] :
       res \in {FractionMatrixUtils_cloneMatrix(m)}} : TRUE

FractionMatrixUtils_addRowMultiple(m, targetRow, sourceRow, multiplier) ==
  CHOOSE value \in
    {[res EXCEPT ![targetRow] =
        [j \in 1..Len(m[1]) |->
           add(res[targetRow][j], multiply(res[sourceRow][j], multiplier))]] :
       res \in {FractionMatrixUtils_cloneMatrix(m)}} : TRUE

\* One pass of the loop of findPivot: the row and the value of the best pivot.
FractionMatrixUtils_findPivotRow(m, col, i, max) ==
  CHOOSE best \in
    {IF ~isZero(value)
        /\ (isZero(max.value) \/ NumAbsGreater(toDecimal(value), toDecimal(max.value)))
     THEN [row |-> i, value |-> value]
     ELSE max :
       value \in {abs(m[i][col])}} : TRUE

RECURSIVE FractionMatrixUtils_findPivotFrom(_, _, _, _)
FractionMatrixUtils_findPivotFrom(m, col, i, max) ==
  IF i > Len(m) THEN max.row
  ELSE CHOOSE maxRow \in
         {FractionMatrixUtils_findPivotFrom(m, col, i + 1, next) :
            next \in {FractionMatrixUtils_findPivotRow(m, col, i, max)}} : TRUE

FractionMatrixUtils_findPivot(m, startRow, col) ==
  FractionMatrixUtils_findPivotFrom(m, col, startRow + 1,
                                    [row |-> startRow, value |-> abs(m[startRow][col])])

\* A step of a rational engine: matrix is toNumberMatrix of the rational
\* matrix and fractionMatrix a cloneMatrix of it, both built for the step.
FractionStep(id, title, fm, row, col) ==
  Step(id, title, FractionMatrixUtils_toNumberMatrix(fm), "copy", row, col)

(***************************************************************************)
(* LaplaceExpansionFractions (src/unnamed/part_000)                         *)
(***************************************************************************)
FracZerosInRow(m, i) == Cardinality({j \in 1..Len(m) : isZero(m[i][j])})

FracZerosInCol(m, j) == Cardinality({i \in 1..Len(m) : isZero(m[i][j])})

LaplaceExpansionFractions_findOptimalExpansionRowOrColumn(m) ==
  ScanCols([j \in 1..Len(m) |-> FracZerosInCol(m, j)], 1,
    ScanRows([i \in 1..Len(m) |-> FracZerosInRow(m, i)], 1,
             [type |-> "row", index |-> 1, zeroCount |-> -1]))

LaplaceExpansionFractions_getMinorFraction(m, excludeRow, excludeCol) ==
  [i \in 1..(Len(m) - 1) |->
     RemoveAt(m[IF i < excludeRow THEN i ELSE i + 1], excludeCol)]

FracDet2(m) == subtract(multiply(m[1][1], m[2][2]), multiply(m[1][2], m[2][1]))

RECURSIVE LaplaceExpansionFractions_expandByRow(_, _, _, _, _)
RECURSIVE LaplaceExpansionFractions_expandByRowTerms(_, _, _, _, _)

\* One pass of the loop over the entries of the chosen row.  Minors are
\* always expanded along their first row.
LaplaceExpansionFractions_expandByRowTerm(m, row, j, level, acc) ==
  IF isZero(m[row][j])
  THEN [acc EXCEPT
          !.steps = Append(@, FractionStep(acc.id, "Termino = 0", m, row, j)),
          !.id = @ + 1]
  ELSE CHOOSE value \in
         {[determinant |-> add(acc.determinant,
                             multiply(m[row][j],
                                      multiply(Fraction(Sign(row, j), 1),
                                               minorResult.determinant))),
           steps |-> minorResult.steps \o
                       <<FractionStep(minorResult.nextStepId, "Cofactor", m, row, j),
                         FractionStep(minorResult.nextStepId + 1,
                                      "Contribucion del Termino", m, row, j)>>,
           id |-> minorResult.nextStepId + 2] :
            minorResult \in
              {LaplaceExpansionFractions_expandByRow(minor, 1,
                 Append(acc.steps, FractionStep(acc.id, "Menor", minor, row, j)),
                 acc.id + 1, level + 1) :
                 minor \in {LaplaceExpansionFractions_getMinorFraction(m, row, j)}}} : TRUE

LaplaceExpansionFractions_expandByRowTerms(m, row, j, level, acc) ==
  IF j > Len(m) THEN acc
  ELSE CHOOSE value \in
         {LaplaceExpansionFractions_expandByRowTerms(m, row, j + 1, level, next) :
            next \in {LaplaceExpansionFractions_expandByRowTerm(m, row, j, level, acc)}} :
         TRUE

LaplaceExpansionFractions_expandByRow(m, row, steps0, stepCounter, level) ==
  IF Len(m) = 1
  THEN [determinant |-> clone(m[1][1]), nextStepId |-> stepCounter + 1,
        steps |-> Append(steps0, FractionStep(stepCounter, "Matriz 1x1", m, 0, 0))]
  ELSE IF Len(m) = 2
  THEN [determinant |-> FracDet2(m), nextStepId |-> stepCounter + 1,
        steps |-> Append(steps0, FractionStep(stepCounter, "Determinante 2x2", m, 0, 0))]
  ELSE CHOOSE value \in
         {[determinant |-> acc.determinant, nextStepId |-> acc.id + 1,
           steps |-> Append(acc.steps,
                            FractionStep(acc.id, "Determinante Final (Nivel)", m, row, 0))] :
            acc \in
              {LaplaceExpansionFractions_expandByRowTerms(m, row, 1, level,
                 [determinant |-> Fraction(0, 1),
                  steps |-> Append(steps0, FractionStep(stepCounter, "Expansion por Fila",
                                                        m, row, 0)),
                  id |-> stepCounter + 1])}} : TRUE

RECURSIVE LaplaceExpansionFractions_expandByColumn(_, _, _, _, _)
RECURSIVE LaplaceExpansionFractions_expandByColumnTerms(_, _, _, _, _)

\* One pass of the loop over the entries of the chosen column.  The column
\* expansion records no step: the trace and the counter pass through
\* unchanged.
LaplaceExpansionFractions_expandByColumnTerm(m, col, i, level, acc) ==
  IF isZero(m[i][col])
  THEN acc
  ELSE CHOOSE value \in
         {[determinant |-> add(acc.determinant,
                             multiply(m[i][col],
                                      multiply(Fraction(Sign(i, col), 1),
                                               minorResult.determinant))),
           steps |-> minorResult.steps, id |-> minorResult.nextStepId] :
            minorResult \in
              {LaplaceExpansionFractions_expandByColumn(minor,
                 LaplaceExpansionFractions_findOptimalExpansionRowOrColumn(minor).index,
                 acc.steps, acc.id, level + 1) :
                 minor \in {LaplaceExpansionFractions_getMinorFraction(m, i, col)}}} : TRUE

LaplaceExpansionFractions_expandByColumnTerms(m, col, i, level, acc) ==
  IF i > Len(m) THEN acc
  ELSE CHOOSE value \in
         {LaplaceExpansionFractions_expandByColumnTerms(m, col, i + 1, level, next) :
            next \in {LaplaceExpansionFractions_expandByColumnTerm(m, col, i, level, acc)}} :
         TRUE

LaplaceExpansionFractions_expandByColumn(m, col, steps0, stepCounter, level) ==
  IF Len(m) = 1
  THEN [determinant |-> clone(m[1][1]), nextStepId |-> stepCounter, steps |-> steps0]
  ELSE IF Len(m) = 2
  THEN [determinant |-> FracDet2(m), nextStepId |-> stepCounter, steps |-> steps0]
  ELSE CHOOSE value \in
         {[determinant |-> acc.determinant, nextStepId |-> acc.id, steps |-> acc.steps] :
            acc \in
              {LaplaceExpansionFractions_expandByColumnTerms(m, col, 1, level,
                 [determinant |-> Fraction(0, 1), steps |-> steps0,
                  id |-> stepCounter])}} : TRUE

\* The expansion of fractionMatrix after the two opening steps.
LaplaceExpansionFractions_expand(fractionMatrix, optimal) ==
  IF optimal.type = "row"
  THEN LaplaceExpansionFractions_expandByRow(fractionMatrix, optimal.index,
         <<FractionStep(1, "Matriz Original", fractionMatrix, 0, 0),
           FractionStep(2, "Seleccion de Fila/Columna Optima", fractionMatrix,
                        optimal.index, 0)>>, 3, 1)
  ELSE LaplaceExpansionFractions_expandByColumn(fractionMatrix, optimal.index,
         <<FractionStep(1, "Matriz Original", fractionMatrix, 0, 0),
           FractionStep(2, "Seleccion de Fila/Columna Optima", fractionMatrix,
                        0, optimal.index)>>, 3, 1)

RECURSIVE LaplaceExpansionFractions_calculateSimpleDeterminant(_)

\* One pass of the loop of calculateSimpleDeterminant.
LaplaceExpansionFractions_simpleTerm(m, optimal, k, determinant) ==
  CHOOSE value \in
    {IF isZero(m[at[1]][at[2]])
     THEN determinant
     ELSE add(determinant,
              multiply(multiply(Fraction(Sign(at[1], at[2]), 1), m[at[1]][at[2]]),
                       LaplaceExpansionFractions_calculateSimpleDeterminant(
                         LaplaceExpansionFractions_getMinorFraction(m, at[1], at[2])))) :
       at \in {IF optimal.type = "row" THEN <<optimal.index, k>>
                                       ELSE <<k, optimal.index>>}} : TRUE

RECURSIVE LaplaceExpansionFractions_simpleTerms(_, _, _, _)
LaplaceExpansionFractions_simpleTerms(m, optimal, k, determinant) ==
  IF k > Len(m) THEN determinant
  ELSE CHOOSE value \in
         {LaplaceExpansionFractions_simpleTerms(m, optimal, k + 1, next) :
            next \in {LaplaceExpansionFractions_simpleTerm(m, optimal, k, determinant)}} :
         TRUE

LaplaceExpansionFractions_calculateSimpleDeterminant(m) ==
  IF Len(m) = 1 THEN clone(m[1][1])
  ELSE IF Len(m) = 2 THEN FracDet2(m)
  ELSE LaplaceExpansionFractions_simpleTerms(m,
         LaplaceExpansionFractions_findOptimalExpansionRowOrColumn(m), 1, Fraction(0, 1))

\* The terms `${displaySign}(${Math.abs(value.toDecimal())}) x (${minorDet})`.
LaplaceExpansionFractions_buildExpansionFormulaWithValues(m, index, type) ==
  [k \in 1..Len(m) |->
     CHOOSE term \in
       {[displaySign |-> DisplaySign(k = 1, Sign(at[1], at[2])),
         literal |-> [numerator |-> Abs(toDecimal(m[at[1]][at[2]]).numerator),
                      denominator |-> toDecimal(m[at[1]][at[2]]).denominator],
         minorDet |-> LaplaceExpansionFractions_calculateSimpleDeterminant(
                        LaplaceExpansionFractions_getMinorFraction(m, at[1], at[2]))] :
          at \in {IF type = "row" THEN <<index, k>> ELSE <<k, index>>}} : TRUE]

LaplaceExpansionFractions_calculateDeterminant(m) ==
  CHOOSE value \in
    {CHOOSE chosen \in
       {CHOOSE returned \in
          {[steps |-> res.steps, determinant |-> toDecimal(res.determinant),
            fractionDeterminant |-> res.determinant,
            expansionFormula |->
              LaplaceExpansionFractions_buildExpansionFormulaWithValues(
                fractionMatrix, optimal.index, optimal.type)] :
             res \in {LaplaceExpansionFractions_expand(fractionMatrix, optimal)}} :
          TRUE :
          optimal \in
            {LaplaceExpansionFractions_findOptimalExpansionRowOrColumn(fractionMatrix)}} :
       TRUE :
       fractionMatrix \in {FractionMatrixUtils_fromNumberMatrix(m)}} : TRUE

(***************************************************************************)
(* GaussianElimination.calculateDeterminant (src/utils/gaussianElimination.ts) *)
(* The loops run over a record st: the working matrix w, swapCount, the    *)
(* trace, stepCounter (id) and whether a zero pivot column ended the run.  *)
(***************************************************************************)
RECURSIVE DiagonalProduct(_, _)
DiagonalProduct(w, i) ==
  IF i > Len(w) THEN Num(1) ELSE NumMul(w[i][i], DiagonalProduct(w, i + 1))

\* One pass of the inner loop: row j loses its entry in column i.
GaussianElimination_detRow(st, i, j) ==
  CHOOSE value \in
    {IF notNearZero(factor)
     THEN CHOOSE next \in
            {[st EXCEPT !.w = w2,
                        !.steps = Append(@, Step(st.id, "Eliminacion - Fila",
                                     MatrixMath_cloneMatrix(w2), "copy", j, 0)),
                        !.id = @ + 1] :
               w2 \in {MatrixMath_addRowMultiple(st.w, j, i, factor)}} : TRUE
     ELSE st :
       factor \in {NumDiv(NumNeg(st.w[j][i]), st.w[i][i])}} : TRUE

RECURSIVE GaussianElimination_detRows(_, _, _)
GaussianElimination_detRows(st, i, j) ==
  IF j > Len(st.w) THEN st
  ELSE CHOOSE value \in
         {GaussianElimination_detRows(next, i, j + 1) :
            next \in {GaussianElimination_detRow(st, i, j)}} : TRUE

\* The exchange of row i with the pivot row, and its step.
GaussianElimination_detSwap(st, i, pivotRow) ==
  CHOOSE value \in
    {[st EXCEPT !.w = w2, !.swapCount = @ + 1,
                !.steps = Append(@, Step(st.id, "Intercambio de Filas",
                             MatrixMath_cloneMatrix(w2), "copy", i, 0)),
                !.id = @ + 1] :
       w2 \in {MatrixMath_swapRows(st.w, i, pivotRow)}} : TRUE

\* One pass of the outer loop: column i.  A zero pivot column ends the run.
GaussianElimination_detColumn(st, i) ==
  CHOOSE value \in
    {IF nearZero(st.w[pivotRow][i])
     THEN [st EXCEPT !.zero = TRUE,
                     !.steps = Append(@, Step(st.id, "Determinante = 0",
                                  MatrixMath_cloneMatrix(st.w), "copy", 0, 0))]
     ELSE CHOOSE next \in
            {GaussianElimination_detRows(st1, i, i + 1) :
               st1 \in {IF pivotRow # i
                        THEN GaussianElimination_detSwap(st, i, pivotRow)
                        ELSE st}} : TRUE :
       pivotRow \in {MatrixMath_findPivot(st.w, i, i)}} : TRUE

RECURSIVE GaussianElimination_detColumns(_, _)
GaussianElimination_detColumns(st, i) ==
  IF i > Len(st.w) - 1 \/ st.zero THEN st
  ELSE CHOOSE value \in
         {GaussianElimination_detColumns(next, i + 1) :
            next \in {GaussianElimination_detColumn(st, i)}} : TRUE

\* A result that forgets the sign of the row exchanges.
GaussianElimination_detResultUnsigned(st) ==
  IF st.zero
  THEN [steps |-> st.steps, determinant |-> Num(0), w |-> st.w,
        swapCount |-> st.swapCount]
  ELSE [steps |-> Append(st.steps, Step(st.id, "Determinante Final",
                                        MatrixMath_cloneMatrix(st.w), "copy", 0, 0)),
        determinant |-> DiagonalProduct(st.w, 1),
        w |-> st.w, swapCount |-> st.swapCount]

\* The result after the loops ended in st.
GaussianElimination_detResult(st) ==
  IF st.zero
  THEN [steps |-> st.steps, determinant |-> Num(0), w |-> st.w,
        swapCount |-> st.swapCount]
  ELSE [steps |-> Append(st.steps, Step(st.id, "Determinante Final",
                                        MatrixMath_cloneMatrix(st.w), "copy", 0, 0)),
        determinant |-> IF st.swapCount % 2 = 1
                        THEN NumMul(DiagonalProduct(st.w, 1), Num(-1))
                        ELSE DiagonalProduct(st.w, 1),
        w |-> st.w, swapCount |-> st.swapCount]

GaussianElimination_calculateDeterminant(m) ==
  CHOOSE value \in
    {GaussianElimination_detResult(st) :
       st \in
         {GaussianElimination_detColumns(
            [w |-> workingMatrix, swapCount |-> 0, zero |-> FALSE, id |-> 2,
             steps |-> <<Step(1, "Matriz Original",
                              MatrixMath_cloneMatrix(workingMatrix), "copy", 0, 0)>>], 1) :
            workingMatrix \in {MatrixMath_cloneMatrix(m)}}} : TRUE

(***************************************************************************)
(* GaussianEliminationFractions.calculateDeterminant                       *)
(***************************************************************************)
RECURSIVE FracDiagonalProduct(_, _, _)
FracDiagonalProduct(w, i, determinant) ==
  IF i > Len(w) THEN determinant
  ELSE CHOOSE value \in
         {FracDiagonalProduct(w, i + 1, next) :
            next \in {multiply(determinant, w[i][i])}} : TRUE

GaussianEliminationFractions_detRow(st, i, j) ==
  IF ~isZero(st.w[j][i])
  THEN CHOOSE next \in
         {[st EXCEPT !.w = w2,
                     !.steps = Append(@, FractionStep(st.id, "Eliminacion - Fila",
                                                      w2, j, 0)),
                     !.id = @ + 1] :
            w2 \in {FractionMatrixUtils_addRowMultiple(st.w, j, i,
                      divide(negate(st.w[j][i]), st.w[i][i]))}} : TRUE
  ELSE st

RECURSIVE GaussianEliminationFractions_detRows(_, _, _)
GaussianEliminationFractions_detRows(st, i, j) ==
  IF j > Len(st.w) THEN st
  ELSE CHOOSE value \in
         {GaussianEliminationFractions_detRows(next, i, j + 1) :
            next \in {GaussianEliminationFractions_detRow(st, i, j)}} : TRUE

GaussianEliminationFractions_detSwap(st, i, pivotRow) ==
  CHOOSE value \in
    {[st EXCEPT !.w = w2, !.swapCount = @ + 1,
                !.steps = Append(@, FractionStep(st.id, "Intercambio de Filas",
                                                 w2, i, 0)),
                !.id = @ + 1] :
       w2 \in {FractionMatrixUtils_swapRows(st.w, i, pivotRow)}} : TRUE

GaussianEliminationFractions_detColumn(st, i) ==
  CHOOSE value \in
    {IF isZero(st.w[pivotRow][i])
     THEN [st EXCEPT !.zero = TRUE,
                     !.steps = Append(@, FractionStep(st.id, "Determinante = 0",
                                                      st.w, 0, 0))]
     ELSE CHOOSE next \in
            {GaussianEliminationFractions_detRows(st1, i, i + 1) :
               st1 \in {IF pivotRow # i
                        THEN GaussianEliminationFractions_detSwap(st, i, pivotRow)
                        ELSE st}} : TRUE :
       pivotRow \in {FractionMatrixUtils_findPivot(st.w, i, i)}} : TRUE

RECURSIVE GaussianEliminationFractions_detColumns(_, _)
GaussianEliminationFractions_detColumns(st, i) ==
  IF i > Len(st.w) - 1 \/ st.zero THEN st
  ELSE CHOOSE value \in
         {GaussianEliminationFractions_detColumns(next, i + 1) :
            next \in {GaussianEliminationFractions_detColumn(st, i)}} : TRUE

GaussianEliminationFractions_detResult(st) ==
  IF st.zero
  THEN [steps |-> st.steps, determinant |-> Num(0),
        fractionDeterminant |-> Fraction(0, 1), w |-> st.w,
        swapCount |-> st.swapCount]
  ELSE CHOOSE value \in
         {[steps |-> Append(st.steps,
                            FractionStep(st.id, "Determinante Final", st.w, 0, 0)),
           determinant |-> toDecimal(determinant),
           fractionDeterminant |-> determinant, w |-> st.w,
           swapCount |-> st.swapCount] :
            determinant \in
              {IF st.swapCount % 2 = 1
               THEN negate(FracDiagonalProduct(st.w, 1, Fraction(1, 1)))
               ELSE FracDiagonalProduct(st.w, 1, Fraction(1, 1))}} : TRUE

GaussianEliminationFractions_calculateDeterminant(m) ==
  CHOOSE value \in
    {GaussianEliminationFractions_detResult(st) :
       st \in
         {GaussianEliminationFractions_detColumns(
            [w |-> workingMatrix, swapCount |-> 0, zero |-> FALSE, id |-> 2,
             steps |-> <<FractionStep(1, "Matriz Original", workingMatrix, 0, 0)>>], 1) :
            workingMatrix \in {FractionMatrixUtils_fromNumberMatrix(m)}}} : TRUE

(***************************************************************************)
(* GaussJordanDeterminant.calculateDeterminant                             *)
(***************************************************************************)
\* workMatrix.map(r => r.map(f => f.toDecimal()))
WorkStep(id, title, workMatrix) ==
  Step(id, title, FractionMatrixUtils_toNumberMatrix(workMatrix), "copy", 0, 0)

RECURSIVE GaussJordanDeterminant_pivotRow(_, _, _, _)
GaussJordanDeterminant_pivotRow(w, i, k, pivotRow) ==
  IF k > Len(w) THEN pivotRow
  ELSE IF NumAbsGreater(toDecimal(abs(w[k][i])), toDecimal(abs(w[pivotRow][i])))
       THEN GaussJordanDeterminant_pivotRow(w, i, k + 1, k)
       ELSE GaussJordanDeterminant_pivotRow(w, i, k + 1, pivotRow)

\* Row k below the pivot row i loses factor times row i in the columns i..n.
GaussJordanDeterminant_eliminateRow(w, i, k, pivot) ==
  IF ~isZero(w[k][i])
  THEN CHOOSE value \in
         {[w EXCEPT ![k] = [j \in 1..Len(w) |->
                              IF j >= i THEN subtract(w[k][j], multiply(factor, w[i][j]))
                              ELSE w[k][j]]] :
            factor \in {divide(w[k][i], pivot)}} : TRUE
  ELSE w

RECURSIVE GaussJordanDeterminant_eliminate(_, _, _, _)
GaussJordanDeterminant_eliminate(w, i, k, pivot) ==
  IF k > Len(w) THEN w
  ELSE CHOOSE value \in
         {GaussJordanDeterminant_eliminate(next, i, k + 1, pivot) :
            next \in {GaussJordanDeterminant_eliminateRow(w, i, k, pivot)}} : TRUE

\* The exchange of row i with the pivot row, and its step.
GaussJordanDeterminant_swap(st, i, pivotRow) ==
  CHOOSE value \in
    {[st EXCEPT !.w = w2, !.swapCount = @ + 1,
                !.steps = Append(@, WorkStep(st.id, "Intercambio de Filas", w2)),
                !.id = @ + 1] :
       w2 \in {[st.w EXCEPT ![i] = st.w[pivotRow], ![pivotRow] = st.w[i]]}} : TRUE

\* Column i of st1, whose pivot is in place: the determinant takes the pivot
\* and the rows below are cleared; the step is recorded when a row changed.
GaussJordanDeterminant_clear(st1, i) ==
  CHOOSE value \in
    {IF \E k \in (i + 1)..Len(st1.w) : ~isZero(st1.w[k][i])
     THEN [st1 EXCEPT !.w = w3,
                      !.determinant = multiply(@, st1.w[i][i]),
                      !.steps = Append(@, WorkStep(st1.id, "Eliminacion Columna", w3)),
                      !.id = @ + 1]
     ELSE [st1 EXCEPT !.w = w3,
                      !.determinant = multiply(@, st1.w[i][i])] :
       w3 \in {GaussJordanDeterminant_eliminate(st1.w, i, i + 1, st1.w[i][i])}} : TRUE

\* One pass of the loop: column i.  A zero pivot column ends the run.
GaussJordanDeterminant_column(st, i) ==
  CHOOSE value \in
    {IF isZero(st.w[pivotRow][i])
     THEN [st EXCEPT !.zero = TRUE,
                     !.steps = Append(@, WorkStep(st.id, "Determinante Cero", st.w)),
                     !.id = @ + 1]
     ELSE CHOOSE next \in
            {GaussJordanDeterminant_clear(st1, i) :
               st1 \in {IF pivotRow # i
                        THEN GaussJordanDeterminant_swap(st, i, pivotRow)
                        ELSE st}} : TRUE :
       pivotRow \in {GaussJordanDeterminant_pivotRow(st.w, i, i + 1, i)}} : TRUE

RECURSIVE GaussJordanDeterminant_columns(_, _)
GaussJordanDeterminant_columns(st, i) ==
  IF i > Len(st.w) \/ st.zero THEN st
  ELSE CHOOSE value \in
         {GaussJordanDeterminant_columns(next, i + 1) :
            next \in {GaussJordanDeterminant_column(st, i)}} : TRUE

\* matrix, : the step holds the caller's array itself
GaussJordanDeterminant_firstStep(m) ==
  Step(1, "Matriz Original", m, "input", 0, 0)

\* The result after the loop ended in st.
GaussJordanDeterminant_result(st) ==
  IF st.zero
  THEN [steps |-> st.steps, determinant |-> Fraction(0, 1), w |-> st.w,
        swapCount |-> st.swapCount]
  ELSE [steps |-> Append(st.steps, WorkStep(st.id, "Determinante Final", st.w)),
        determinant |-> IF st.swapCount % 2 # 0
                        THEN multiply(st.determinant, Fraction(-1, 1))
                        ELSE st.determinant,
        w |-> st.w, swapCount |-> st.swapCount]

GaussJordanDeterminant_calculateDeterminant(m) ==
  CHOOSE value \in
    {GaussJordanDeterminant_result(st) :
       st \in
         {GaussJordanDeterminant_columns(
            [w |-> FractionMatrixUtils_cloneMatrix(FractionMatrixUtils_fromNumberMatrix(m)),
             swapCount |-> 0, zero |-> FALSE, id |-> 2,
             determinant |-> Fraction(1, 1),
             steps |-> <<GaussJordanDeterminant_firstStep(m)>>], 1)}} : TRUE

(***************************************************************************)
(* Solution                                                                *)
(***************************************************************************)
\* A Solution that reports every non-unique outcome under both flags.
SolutionBothFlags(variables, isUnique, hasInfiniteSolutions, hasNoSolution) ==
  [thrown |-> FALSE, variables |-> variables, isUnique |-> isUnique,
   hasInfiniteSolutions |-> ~isUnique, hasNoSolution |-> ~isUnique,
   hasDeterminant |-> FALSE, determinant |-> Num(0)]

Solution(variables, isUnique, hasInfiniteSolutions, hasNoSolution) ==
  [thrown |-> FALSE, variables |-> variables, isUnique |-> isUnique,
   hasInfiniteSolutions |-> hasInfiniteSolutions, hasNoSolution |-> hasNoSolution,
   hasDeterminant |-> FALSE, determinant |-> Num(0)]

WithDeterminant(solution, determinant) ==
  [solution EXCEPT !.hasDeterminant = TRUE, !.determinant = determinant]

\* The call raised an Error: nothing is returned.
Raised == [steps |-> <<>>,
           solution |-> [Solution(<<>>, FALSE, FALSE, FALSE) EXCEPT !.thrown = TRUE]]

(***************************************************************************)
(* GaussianElimination.solve and backSubstitution                          *)
(***************************************************************************)
\* The row is all (near) zero in its n coefficient columns.
AllZeros(row, n) == \A j \in 1..n : ~notNearZero(row[j])

InconsistentRows(aug, n) ==
  {i \in 1..n : AllZeros(aug[i], n) /\ notNearZero(aug[i][n + 1])}

Min(S) == CHOOSE x \in S : \A y \in S : x <= y

RankOfRows(aug, n) == Cardinality({i \in 1..n : ~AllZeros(aug[i], n)})

\* sum -= augmentedMatrix[i][j] * variables[j] for j = from .. n
RECURSIVE SubtractKnown(_, _, _, _, _)
SubtractKnown(row, variables, j, n, sum) ==
  IF j > n THEN sum
  ELSE CHOOSE value \in
         {SubtractKnown(row, variables, j + 1, n, next) :
            next \in {NumSub(sum, NumMul(row[j], variables[j]))}} : TRUE

\* One pass of the substitution loop: variables[i], and its step.
GaussianElimination_substituteRow(aug, i, acc) ==
  [variables |-> [acc.variables EXCEPT ![i] =
                    NumDiv(SubtractKnown(aug[i], acc.variables, i + 1, Len(aug),
                                         aug[i][Len(aug) + 1]),
                           aug[i][i])],
   steps |-> Append(acc.steps, Step(acc.id, "Calculo de x",
                                    MatrixMath_cloneMatrix(aug), "copy", i, 0)),
   id |-> acc.id + 1]

RECURSIVE GaussianElimination_substitute(_, _, _)
GaussianElimination_substitute(aug, i, acc) ==
  IF i < 1 THEN acc
  ELSE CHOOSE value \in
         {GaussianElimination_substitute(aug, i - 1, next) :
            next \in {GaussianElimination_substituteRow(aug, i, acc)}} : TRUE

\* The substitution of a system of full rank, from its opening step on.
GaussianElimination_unique(aug, steps0, stepCounter) ==
  CHOOSE value \in
    {[steps |-> acc.steps,
      solution |-> Solution(acc.variables, TRUE, FALSE, FALSE)] :
       acc \in
         {GaussianElimination_substitute(aug, Len(aug),
            [variables |-> [k \in 1..Len(aug) |-> Num(0)],
             steps |-> Append(steps0, Step(stepCounter, "Sustitucion Hacia Atras",
                                           MatrixMath_cloneMatrix(aug), "copy", 0, 0)),
             id |-> stepCounter + 1])}} : TRUE

\* A back substitution that checks the rank before the inconsistency.
GaussianElimination_backSubstitutionRankFirst(aug, steps0, stepCounter) ==
  IF RankOfRows(aug, Len(aug)) < Len(aug)
  THEN [steps |-> Append(steps0, Step(stepCounter, "Sistema con Infinitas Soluciones",
                                      MatrixMath_cloneMatrix(aug), "copy", 0, 0)),
        solution |-> Solution(<<>>, FALSE, TRUE, FALSE)]
  ELSE GaussianElimination_unique(aug, steps0, stepCounter)

GaussianElimination_backSubstitution(aug, steps0, stepCounter) ==
  IF InconsistentRows(aug, Len(aug)) # {}
  THEN [steps |-> Append(steps0, Step(stepCounter, "Sistema Inconsistente",
                                      MatrixMath_cloneMatrix(aug), "copy",
                                      Min(InconsistentRows(aug, Len(aug))), 0)),
        solution |-> Solution(<<>>, FALSE, FALSE, TRUE)]
  ELSE IF RankOfRows(aug, Len(aug)) < Len(aug)
  THEN [steps |-> Append(steps0, Step(stepCounter, "Sistema con Infinitas Soluciones",
                                      MatrixMath_cloneMatrix(aug), "copy", 0, 0)),
        solution |-> Solution(<<>>, FALSE, TRUE, FALSE)]
  ELSE GaussianElimination_unique(aug, steps0, stepCounter)

\* augmentedMatrix[j][k] += factor * augmentedMatrix[i][k] for k = 0 .. n
RowPlusMultiple(aug, j, i, factor) ==
  [aug EXCEPT ![j] = [k \in 1..Len(aug[j]) |->
                        NumAdd(aug[j][k], NumMul(factor, aug[i][k]))]]

\* One pass of the inner loop: row j loses its entry in column i.
GaussianElimination_solveRow(st, i, j) ==
  CHOOSE value \in
    {IF notNearZero(factor)
     THEN CHOOSE next \in
            {[st EXCEPT !.w = w2,
                        !.steps = Append(@, Step(st.id, "Eliminacion Gaussiana",
                                     MatrixMath_cloneMatrix(w2), "copy", j, 0)),
                        !.id = @ + 1] :
               w2 \in {RowPlusMultiple(st.w, j, i, factor)}} : TRUE
     ELSE st :
       factor \in {NumDiv(NumNeg(st.w[j][i]), st.w[i][i])}} : TRUE

RECURSIVE GaussianElimination_solveRows(_, _, _)
GaussianElimination_solveRows(st, i, j) ==
  IF j > Len(st.w) THEN st
  ELSE CHOOSE value \in
         {GaussianElimination_solveRows(next, i, j + 1) :
            next \in {GaussianElimination_solveRow(st, i, j)}} : TRUE

\* The exchange of row i with the pivot row, and its step.
GaussianElimination_solveSwap(st, i, pivotRow) ==
  CHOOSE value \in
    {[st EXCEPT !.w = w2,
                !.steps = Append(@, Step(st.id, "Intercambio de Filas",
                             MatrixMath_cloneMatrix(w2), "copy", i, 0)),
                !.id = @ + 1] :
       w2 \in {MatrixMath_swapRows(st.w, i, pivotRow)}} : TRUE

\* One pass of the outer loop: column i.  A zero pivot column is skipped.
GaussianElimination_solveColumn(st, i) ==
  CHOOSE value \in
    {IF nearZero(st.w[pivotRow][i])
     THEN st
     ELSE CHOOSE next \in
            {GaussianElimination_solveRows(st1, i, i + 1) :
               st1 \in {IF pivotRow # i
                        THEN GaussianElimination_solveSwap(st, i, pivotRow)
                        ELSE st}} : TRUE :
       pivotRow \in {MatrixMath_findPivot(st.w, i, i)}} : TRUE

RECURSIVE GaussianElimination_solveColumns(_, _)
GaussianElimination_solveColumns(st, i) ==
  IF i > Len(st.w) - 1 THEN st
  ELSE CHOOSE value \in
         {GaussianElimination_solveColumns(next, i + 1) :
            next \in {GaussianElimination_solveColumn(st, i)}} : TRUE

GaussianElimination_solve(coefficientMatrix, constantVector) ==
  CHOOSE value \in
    {GaussianElimination_backSubstitution(st.w, st.steps, st.id) :
       st \in
         {GaussianElimination_solveColumns(
            [w |-> augmentedMatrix, id |-> 2,
             steps |-> <<Step(1, "Matriz Aumentada Inicial",
                              MatrixMath_cloneMatrix(augmentedMatrix), "copy", 0, 0)>>], 1) :
            augmentedMatrix \in
              {MatrixMath_createAugmentedMatrix(coefficientMatrix, constantVector)}}} : TRUE

(***************************************************************************)
(* GaussianEliminationFractions.solve and backSubstitution                 *)
(***************************************************************************)
FracAllZeros(row, n) == \A j \in 1..n : isZero(row[j])

FracInconsistentRows(aug, n) ==
  {i \in 1..n : FracAllZeros(aug[i], n) /\ ~isZero(aug[i][n + 1])}

FracRankOfRows(aug, n) == Cardinality({i \in 1..n : ~FracAllZeros(aug[i], n)})

RECURSIVE FracSubtractKnown(_, _, _, _, _)
FracSubtractKnown(row, variables, j, n, sum) ==
  IF j > n THEN sum
  ELSE CHOOSE value \in
         {FracSubtractKnown(row, variables, j + 1, n, next) :
            next \in {subtract(sum, multiply(row[j], variables[j]))}} : TRUE

\* One pass of the substitution loop.  acc.thrown: sum.divide(
\* augmentedMatrix[i][i]) raised, the loop is left.
GaussianEliminationFractions_substituteRow(aug, i, acc) ==
  CHOOSE next \in
    {IF isThrown(value)
     THEN [acc EXCEPT !.thrown = TRUE]
     ELSE [variables |-> [acc.variables EXCEPT ![i] = value],
           steps |-> Append(acc.steps, FractionStep(acc.id, "Calculo de x", aug, i, 0)),
           id |-> acc.id + 1, thrown |-> FALSE] :
       value \in {divide(FracSubtractKnown(aug[i], acc.variables, i + 1, Len(aug),
                                           clone(aug[i][Len(aug) + 1])),
                         aug[i][i])}} : TRUE

RECURSIVE GaussianEliminationFractions_substitute(_, _, _)
GaussianEliminationFractions_substitute(aug, i, acc) ==
  IF i < 1 \/ acc.thrown THEN acc
  ELSE CHOOSE value \in
         {GaussianEliminationFractions_substitute(aug, i - 1, next) :
            next \in {GaussianEliminationFractions_substituteRow(aug, i, acc)}} : TRUE

\* The substitution of a system of full rank, from its opening step on.
GaussianEliminationFractions_unique(aug, steps0, stepCounter) ==
  CHOOSE value \in
    {IF acc.thrown THEN Raised
     ELSE [steps |-> acc.steps,
           solution |-> Solution(FractionMatrixUtils_toNumberVector(acc.variables),
                                 TRUE, FALSE, FALSE)] :
       acc \in
         {GaussianEliminationFractions_substitute(aug, Len(aug),
            [variables |-> [k \in 1..Len(aug) |-> Fraction(0, 1)],
             steps |-> Append(steps0, FractionStep(stepCounter,
                                        "Sustitucion Hacia Atras", aug, 0, 0)),
             id |-> stepCounter + 1, thrown |-> FALSE])}} : TRUE

GaussianEliminationFractions_backSubstitution(aug, steps0, stepCounter) ==
  IF FracInconsistentRows(aug, Len(aug)) # {}
  THEN [steps |-> Append(steps0, FractionStep(stepCounter, "Sistema Inconsistente",
                                              aug, Min(FracInconsistentRows(aug, Len(aug))),
                                              0)),
        solution |-> Solution(<<>>, FALSE, FALSE, TRUE)]
  ELSE IF FracRankOfRows(aug, Len(aug)) < Len(aug)
  THEN [steps |-> Append(steps0, FractionStep(stepCounter,
                                   "Sistema con Infinitas Soluciones", aug, 0, 0)),
        solution |-> Solution(<<>>, FALSE, TRUE, FALSE)]
  ELSE GaussianEliminationFractions_unique(aug, steps0, stepCounter)

GaussianEliminationFractions_solveRow(st, i, j) ==
  IF ~isZero(st.w[j][i])
  THEN CHOOSE next \in
         {[st EXCEPT !.w = w2,
                     !.steps = Append(@, FractionStep(st.id, "Eliminacion Gaussiana",
                                                      w2, j, 0)),
                     !.id = @ + 1] :
            w2 \in {FractionMatrixUtils_addRowMultiple(st.w, j, i,
                      divide(negate(st.w[j][i]), st.w[i][i]))}} : TRUE
  ELSE st

RECURSIVE GaussianEliminationFractions_solveRows(_, _, _)
GaussianEliminationFractions_solveRows(st, i, j) ==
  IF j > Len(st.w) THEN st
  ELSE CHOOSE value \in
         {GaussianEliminationFractions_solveRows(next, i, j + 1) :
            next \in {GaussianEliminationFractions_solveRow(st, i, j)}} : TRUE

GaussianEliminationFractions_solveSwap(st, i, pivotRow) ==
  CHOOSE value \in
    {[st EXCEPT !.w = w2,
                !.steps = Append(@, FractionStep(st.id, "Intercambio de Filas",
                                                 w2, i, 0)),
                !.id = @ + 1] :
       w2 \in {FractionMatrixUtils_swapRows(st.w, i, pivotRow)}} : TRUE

GaussianEliminationFractions_solveColumn(st, i) ==
  CHOOSE value \in
    {IF isZero(st.w[pivotRow][i])
     THEN st
     ELSE CHOOSE next \in
            {GaussianEliminationFractions_solveRows(st1, i, i + 1) :
               st1 \in {IF pivotRow # i
                        THEN GaussianEliminationFractions_solveSwap(st, i, pivotRow)
                        ELSE st}} : TRUE :
       pivotRow \in {FractionMatrixUtils_findPivot(st.w, i, i)}} : TRUE

RECURSIVE GaussianEliminationFractions_solveColumns(_, _)
GaussianEliminationFractions_solveColumns(st, i) ==
  IF i > Len(st.w) - 1 THEN st
  ELSE CHOOSE value \in
         {GaussianEliminationFractions_solveColumns(next, i + 1) :
            next \in {GaussianEliminationFractions_solveColumn(st, i)}} : TRUE

GaussianEliminationFractions_solve(coefficientMatrix, constantVector) ==
  CHOOSE value \in
    {GaussianEliminationFractions_backSubstitution(st.w, st.steps, st.id) :
       st \in
         {GaussianEliminationFractions_solveColumns(
            [w |-> augmentedMatrix, id |-> 2,
             steps |-> <<FractionStep(1, "Matriz Aumentada Inicial",
                                      augmentedMatrix, 0, 0)>>], 1) :
            augmentedMatrix \in
              {FractionMatrixUtils_createAugmentedMatrix(
                 FractionMatrixUtils_fromNumberMatrix(coefficientMatrix),
                 FractionMatrixUtils_fromNumberVector(constantVector))}}} : TRUE

(***************************************************************************)
(* GaussJordanFractions.solve (src/unnamed/part_000)                       *)
(***************************************************************************)
\* augmentedMatrix.map(row => row.slice(0, -1))
CoefficientPart(aug) == [i \in 1..Len(aug) |-> SubSeq(aug[i], 1, Len(aug[i]) - 1)]

GaussJordanStep(id, title, aug, row) == FractionStep(id, title, CoefficientPart(aug), row, 0)

RECURSIVE GaussJordanFractions_maxRow(_, _, _, _)
GaussJordanFractions_maxRow(aug, i, k, maxRow) ==
  IF k > Len(aug) THEN maxRow
  ELSE IF NumAbsGreater(toDecimal(abs(aug[k][i])), toDecimal(abs(aug[maxRow][i])))
       THEN GaussJordanFractions_maxRow(aug, i, k + 1, k)
       ELSE GaussJordanFractions_maxRow(aug, i, k + 1, maxRow)

\* augmentedMatrix[k][j] = augmentedMatrix[k][j] - factor * augmentedMatrix[i][j]
RowMinusMultiple(aug, k, i, factor) ==
  [aug EXCEPT ![k] = [j \in 1..Len(aug[k]) |->
                        subtract(aug[k][j], multiply(factor, aug[i][j]))]]

\* Row k loses its entry in column i, forward (title of the step) or back.
GaussJordanFractions_clearRow(st, i, k, title) ==
  IF ~isZero(st.w[k][i])
  THEN CHOOSE next \in
         {[st EXCEPT !.w = w2,
                     !.steps = Append(@, GaussJordanStep(st.id, title, w2, k)),
                     !.id = @ + 1] :
            w2 \in {RowMinusMultiple(st.w, k, i, st.w[k][i])}} : TRUE
  ELSE st

RECURSIVE GaussJordanFractions_forwardRows(_, _, _)
GaussJordanFractions_forwardRows(st, i, k) ==
  IF k > Len(st.w) THEN st
  ELSE CHOOSE value \in
         {GaussJordanFractions_forwardRows(next, i, k + 1) :
            next \in {GaussJordanFractions_clearRow(st, i, k,
                        "Eliminacion hacia Adelante")}} : TRUE

\* The exchange of row i with the row of the greatest entry, and its step.
GaussJordanFractions_swap(st, i, maxRow) ==
  CHOOSE value \in
    {[st EXCEPT !.w = w2,
                !.steps = Append(@, GaussJordanStep(st.id, "Intercambio de Filas", w2, i)),
                !.id = @ + 1] :
       w2 \in {[st.w EXCEPT ![i] = st.w[maxRow], ![maxRow] = st.w[i]]}} : TRUE

\* Row i keeps its pivot undivided.
GaussJordanFractions_normalizeOmitted(st1, i) == st1

\* Row i is divided by its pivot, and the step.
GaussJordanFractions_normalize(st1, i) ==
  CHOOSE value \in
    {[st1 EXCEPT !.w = w3,
                 !.steps = Append(@, GaussJordanStep(st1.id, "Normalizar Pivote", w3, i)),
                 !.id = @ + 1] :
       w3 \in {[st1.w EXCEPT ![i] = [j \in 1..Len(st1.w[i]) |->
                                       divide(st1.w[i][j], st1.w[i][i])]]}} : TRUE

\* A pivot step that passes over a zero pivot and goes on to the next column.
GaussJordanFractions_pivotSkips(st1, i) ==
  IF isZero(st1.w[i][i])
  THEN st1
  ELSE CHOOSE next \in
         {GaussJordanFractions_forwardRows(st2, i, i + 1) :
            st2 \in {IF ~equals(st1.w[i][i], Fraction(1, 1))
                     THEN GaussJordanFractions_normalize(st1, i)
                     ELSE st1}} : TRUE

\* Column i of st1, whose pivot is in place.  A zero pivot ends the run.
GaussJordanFractions_pivot(st1, i) ==
  IF isZero(st1.w[i][i])
  THEN [st1 EXCEPT !.noPivot = TRUE]
  ELSE CHOOSE next \in
         {GaussJordanFractions_forwardRows(st2, i, i + 1) :
            st2 \in {IF ~equals(st1.w[i][i], Fraction(1, 1))
                     THEN GaussJordanFractions_normalize(st1, i)
                     ELSE st1}} : TRUE

\* One pass of the forward loop: column i.
GaussJordanFractions_forwardColumn(st, i) ==
  CHOOSE value \in
    {CHOOSE next \in
       {GaussJordanFractions_pivot(st1, i) :
          st1 \in {IF maxRow # i THEN GaussJordanFractions_swap(st, i, maxRow) ELSE st}} :
       TRUE :
       maxRow \in {GaussJordanFractions_maxRow(st.w, i, i + 1, i)}} : TRUE

RECURSIVE GaussJordanFractions_forward(_, _)
GaussJordanFractions_forward(st, i) ==
  IF i > Len(st.w) \/ st.noPivot THEN st
  ELSE CHOOSE value \in
         {GaussJordanFractions_forward(next, i + 1) :
            next \in {GaussJordanFractions_forwardColumn(st, i)}} : TRUE

RECURSIVE GaussJordanFractions_backwardRows(_, _, _)
GaussJordanFractions_backwardRows(st, i, k) ==
  IF k < 1 THEN st
  ELSE CHOOSE value \in
         {GaussJordanFractions_backwardRows(next, i, k - 1) :
            next \in {GaussJordanFractions_clearRow(st, i, k,
                        "Eliminacion hacia Atras")}} : TRUE

RECURSIVE GaussJordanFractions_backward(_, _)
GaussJordanFractions_backward(st, i) ==
  IF i < 1 THEN st
  ELSE CHOOSE value \in
         {GaussJordanFractions_backward(next, i - 1) :
            next \in {GaussJordanFractions_backwardRows(st, i, i - 1)}} : TRUE

\* The back elimination and the result of a system whose pivots were found.
GaussJordanFractions_unique(st1, n) ==
  CHOOSE value \in
    {[steps |-> st2.steps, w |-> st2.w,
      solution |-> WithDeterminant(
                     Solution(FractionMatrixUtils_toNumberVector(
                                [i \in 1..n |-> st2.w[i][n + 1]]),
                              TRUE, FALSE, FALSE),
                     Num(1))] :
       st2 \in {GaussJordanFractions_backward(st1, n)}} : TRUE

GaussJordanFractions_solve(m, constantVector) ==
  CHOOSE value \in
    {IF st1.noPivot
     THEN [steps |-> st1.steps, w |-> st1.w,
           solution |-> Solution(<<>>, FALSE, FALSE, TRUE)]
     ELSE GaussJordanFractions_unique(st1, Len(m)) :
       st1 \in
         {GaussJordanFractions_forward(
            [w |-> augmentedMatrix, id |-> 2, noPivot |-> FALSE,
             steps |-> <<GaussJordanStep(1, "Matriz Inicial", augmentedMatrix, 0)>>], 1) :
            augmentedMatrix \in
              {[i \in 1..Len(m) |->
                  Append(FractionMatrixUtils_fromNumberMatrix(m)[i],
                         FractionMatrixUtils_fromNumberVector(constantVector)[i])]}}} : TRUE

(***************************************************************************)
(* solveByCramersRule, floating and rational                               *)
(***************************************************************************)
\* An embedding that keeps the ids the sub-determinant gave its steps.
RenumberedNot(steps0, sub, stepCounter) == steps0 \o sub

\* steps.push(...sub.map(step => ({...step, id: stepCounter++}))): the
\* embedded trace is numbered on from stepCounter.
Renumbered(steps0, sub, stepCounter) ==
  steps0 \o [k \in 1..Len(sub) |-> [sub[k] EXCEPT !.id = stepCounter + k - 1]]

\* Row i, not column i, takes the constants.
ReplaceRowByConstants(m, i, v) ==
  [r \in 1..Len(m) |-> [c \in 1..Len(m[r]) |-> IF r = i THEN v[c] ELSE m[r][c]]]

ReplaceColumn(m, i, v) ==
  [r \in 1..Len(m) |-> [c \in 1..Len(m[r]) |-> IF c = i THEN v[r] ELSE m[r][c]]]

\* One pass of the loop over the variables: the determinant of the matrix
\* with column i replaced, its trace embedded, and x_i.
LaplaceExpansion_cramerVariable(coefficientMatrix, constantVector, mainDeterminant, i, acc) ==
  LET modifiedMatrix == ReplaceColumn(coefficientMatrix, i, constantVector)
  IN  CHOOSE next \in
        {[variables |-> Append(acc.variables,
                               NumDiv(varDetResult.determinant, mainDeterminant)),
          steps |-> Append(Renumbered(Append(acc.steps,
                                        Step(acc.id, "Matriz para x",
                                             MatrixMath_cloneMatrix(modifiedMatrix),
                                             "copy", 0, i)),
                                      varDetResult.steps, acc.id + 1),
                           Step(acc.id + 1 + Len(varDetResult.steps), "Calculo de x",
                                MatrixMath_cloneMatrix(modifiedMatrix), "copy", 0, i)),
          id |-> acc.id + 2 + Len(varDetResult.steps)] :
           varDetResult \in {LaplaceExpansion_calculateDeterminant(modifiedMatrix)}} : TRUE

RECURSIVE LaplaceExpansion_cramerVariables(_, _, _, _, _)
LaplaceExpansion_cramerVariables(coefficientMatrix, constantVector, mainDeterminant, i, acc) ==
  IF i > Len(coefficientMatrix) THEN acc
  ELSE CHOOSE value \in
         {LaplaceExpansion_cramerVariables(coefficientMatrix, constantVector,
                                           mainDeterminant, i + 1, next) :
            next \in {LaplaceExpansion_cramerVariable(coefficientMatrix, constantVector,
                                                      mainDeterminant, i, acc)}} : TRUE

\* The variables of a system whose determinant is not zero, and the result.
LaplaceExpansion_cramerUnique(coefficientMatrix, constantVector, mainDeterminant, steps0, stepCounter) ==
  CHOOSE value \in
    {[steps |-> Append(acc.steps, Step(acc.id, "Solucion Completa",
                         MatrixMath_createAugmentedMatrix(coefficientMatrix,
                                                          constantVector),
                         "copy", 0, 0)),
      solution |-> WithDeterminant(Solution(acc.variables, TRUE, FALSE, FALSE),
                                   mainDeterminant)] :
       acc \in
         {LaplaceExpansion_cramerVariables(coefficientMatrix, constantVector,
            mainDeterminant, 1,
            [variables |-> <<>>, steps |-> steps0, id |-> stepCounter])}} : TRUE

\* A singular branch that reports the system as having no solution.
LaplaceExpansion_cramerSystemNoSolution(coefficientMatrix, constantVector, mainDetResult) ==
  CHOOSE value \in
    {IF nearZero(mainDetResult.determinant)
     THEN [steps |-> Append(steps0, Step(2 + Len(mainDetResult.steps), "Sistema Singular",
                                         MatrixMath_cloneMatrix(coefficientMatrix),
                                         "copy", 0, 0)),
           solution |-> WithDeterminant(Solution(<<>>, FALSE, FALSE, TRUE),
                                        mainDetResult.determinant)]
     ELSE LaplaceExpansion_cramerUnique(coefficientMatrix, constantVector,
            mainDetResult.determinant, steps0, 2 + Len(mainDetResult.steps)) :
       steps0 \in
         {Renumbered(<<Step(1, "Sistema de Ecuaciones",
                            MatrixMath_createAugmentedMatrix(coefficientMatrix,
                                                             constantVector),
                            "copy", 0, 0)>>,
                     mainDetResult.steps, 2)}} : TRUE

\* The system, its determinant known.
LaplaceExpansion_cramerSystem(coefficientMatrix, constantVector, mainDetResult) ==
  CHOOSE value \in
    {IF nearZero(mainDetResult.determinant)
     THEN [steps |-> Append(steps0, Step(2 + Len(mainDetResult.steps), "Sistema Singular",
                                         MatrixMath_cloneMatrix(coefficientMatrix),
                                         "copy", 0, 0)),
           solution |-> WithDeterminant(Solution(<<>>, FALSE, TRUE, FALSE),
                                        mainDetResult.determinant)]
     ELSE LaplaceExpansion_cramerUnique(coefficientMatrix, constantVector,
            mainDetResult.determinant, steps0, 2 + Len(mainDetResult.steps)) :
       steps0 \in
         {Renumbered(<<Step(1, "Sistema de Ecuaciones",
                            MatrixMath_createAugmentedMatrix(coefficientMatrix,
                                                             constantVector),
                            "copy", 0, 0)>>,
                     mainDetResult.steps, 2)}} : TRUE

LaplaceExpansion_solveByCramersRule(coefficientMatrix, constantVector) ==
  CHOOSE value \in
    {LaplaceExpansion_cramerSystem(coefficientMatrix, constantVector, mainDetResult) :
       mainDetResult \in {LaplaceExpansion_calculateDeterminant(coefficientMatrix)}} : TRUE

LaplaceExpansionFractions_cramerVariable(fractionMatrix, fractionConstants, mainDeterminant, i, acc) ==
  LET modifiedMatrix == ReplaceColumn(FractionMatrixUtils_cloneMatrix(fractionMatrix),
                                      i, fractionConstants)
  IN  CHOOSE next \in
        {[variables |-> Append(acc.variables,
                               divide(varDetResult.fractionDeterminant, mainDeterminant)),
          steps |-> Append(Renumbered(Append(acc.steps,
                                        FractionStep(acc.id, "Matriz para x",
                                                     modifiedMatrix, 0, i)),
                                      varDetResult.steps, acc.id + 1),
                           FractionStep(acc.id + 1 + Len(varDetResult.steps),
                                        "Calculo de x", modifiedMatrix, 0, i)),
          id |-> acc.id + 2 + Len(varDetResult.steps)] :
           varDetResult \in
             {LaplaceExpansionFractions_calculateDeterminant(
                FractionMatrixUtils_toNumberMatrix(modifiedMatrix))}} : TRUE

RECURSIVE LaplaceExpansionFractions_cramerVariables(_, _, _, _, _)
LaplaceExpansionFractions_cramerVariables(fractionMatrix, fractionConstants, mainDeterminant, i, acc) ==
  IF i > Len(fractionMatrix) THEN acc
  ELSE CHOOSE value \in
         {LaplaceExpansionFractions_cramerVariables(fractionMatrix, fractionConstants,
                                                    mainDeterminant, i + 1, next) :
            next \in {LaplaceExpansionFractions_cramerVariable(fractionMatrix,
                        fractionConstants, mainDeterminant, i, acc)}} : TRUE

LaplaceExpansionFractions_cramerUnique(fractionMatrix, fractionConstants, mainDeterminant, steps0, stepCounter) ==
  CHOOSE value \in
    {[steps |-> Append(acc.steps,
                       FractionStep(acc.id, "Solucion Completa",
                                    FractionMatrixUtils_createAugmentedMatrix(
                                      fractionMatrix, fractionConstants), 0, 0)),
      solution |-> WithDeterminant(
                     Solution(FractionMatrixUtils_toNumberVector(acc.variables),
                              TRUE, FALSE, FALSE),
                     toDecimal(mainDeterminant))] :
       acc \in
         {LaplaceExpansionFractions_cramerVariables(fractionMatrix, fractionConstants,
            mainDeterminant, 1,
            [variables |-> <<>>, steps |-> steps0, id |-> stepCounter])}} : TRUE

\* The system in fractions, its determinant known.
LaplaceExpansionFractions_cramerSystem(fractionMatrix, fractionConstants, mainDetResult) ==
  CHOOSE value \in
    {IF isZero(mainDetResult.fractionDeterminant)
     THEN [steps |-> Append(steps0,
                            FractionStep(2 + Len(mainDetResult.steps), "Sistema Singular",
                                         fractionMatrix, 0, 0)),
           solution |-> WithDeterminant(Solution(<<>>, FALSE, TRUE, FALSE),
                                        toDecimal(mainDetResult.fractionDeterminant))]
     ELSE LaplaceExpansionFractions_cramerUnique(fractionMatrix, fractionConstants,
            mainDetResult.fractionDeterminant, steps0, 2 + Len(mainDetResult.steps)) :
       steps0 \in
         {Renumbered(<<FractionStep(1, "Sistema de Ecuaciones",
                                    FractionMatrixUtils_createAugmentedMatrix(
                                      fractionMatrix, fractionConstants), 0, 0)>>,
                     mainDetResult.steps, 2)}} : TRUE

LaplaceExpansionFractions_solveByCramersRule(coefficientMatrix, constantVector) ==
  CHOOSE value \in
    {LaplaceExpansionFractions_cramerSystem(fractionMatrix, fractionConstants,
                                            mainDetResult) :
       fractionMatrix \in {FractionMatrixUtils_fromNumberMatrix(coefficientMatrix)},
       fractionConstants \in {FractionMatrixUtils_fromNumberVector(constantVector)},
       mainDetResult \in
         {LaplaceExpansionFractions_calculateDeterminant(coefficientMatrix)}} : TRUE

(***************************************************************************)
(* MatrixInverse (src/utils/gaussianElimination.ts, lines 640-949)         *)
(***************************************************************************)
\* matrix.map(row => [...row])
CopyRows(m) == [i \in 1..Len(m) |-> [j \in 1..Len(m[i]) |-> m[i][j]]]

MatrixInverse_calculateMinor(m, excludeRow, excludeCol) ==
  [i \in 1..(Len(m) - 1) |->
     RemoveAt(m[IF i < excludeRow THEN i ELSE i + 1], excludeCol)]

MatrixInverse_transposeMatrix(m) ==
  [i \in 1..Len(m) |-> [j \in 1..Len(m) |-> m[j][i]]]

RECURSIVE DotProduct(_, _, _, _, _)
DotProduct(a, b, i, j, k) ==
  IF k > Len(a) THEN Num(0)
  ELSE NumAdd(NumMul(a[i][k], b[k][j]), DotProduct(a, b, i, j, k + 1))

MatrixInverse_multiplyMatrices(a, b) ==
  [i \in 1..Len(a) |-> [j \in 1..Len(a) |-> DotProduct(a, b, i, j, 1)]]

\* Math.abs(matrix[i][j] - expected) > tolerance for no entry
MatrixInverse_isIdentityMatrix(m) ==
  \A i \in 1..Len(m) : \A j \in 1..Len(m) :
     ~notNearZero(NumSub(m[i][j], Num(IF i = j THEN 1 ELSE 0)))

MatrixInverse_cofactor(m, i, j) ==
  NumMul(Num(Sign(i, j)),
         LaplaceExpansion_calculateDeterminant(
           MatrixInverse_calculateMinor(m, i, j)).determinant)

\* The opening step and one step per cofactor, row by row.
MatrixInverse_calculateCofactorMatrixDetailed(m, startStepId) ==
  [cofactorMatrix |->
     [i \in 1..Len(m) |-> [j \in 1..Len(m) |-> MatrixInverse_cofactor(m, i, j)]],
   cofactorSteps |->
     <<Step(startStepId, "Calculo de Cofactores", CopyRows(m), "copy", 0, 0)>> \o
     [k \in 1..(Len(m) * Len(m)) |->
        Step(startStepId + k, "Cofactor C", CopyRows(m), "copy",
             ((k - 1) \div Len(m)) + 1, ((k - 1) % Len(m)) + 1)]]

InverseResult(isInvertible, determinant, inverseMatrix, fractionInverseMatrix, adjugateMatrix) ==
  [thrown |-> FALSE, isInvertible |-> isInvertible, determinant |-> determinant,
   inverseMatrix |-> inverseMatrix, fractionInverseMatrix |-> fractionInverseMatrix,
   adjugateMatrix |-> adjugateMatrix]

\* The two opening steps.
MatrixInverse_openingSteps(m) ==
  <<Step(1, "Matriz Original y Procedimiento", CopyRows(m), "copy", 0, 0),
    Step(2, "Calculo del Determinante", CopyRows(m), "copy", 0, 0)>>

\* The last four steps hold the matrices of the result themselves, and the
\* product A * inverse.
MatrixInverse_inverted(m, determinant, cof, adjugateMatrix, inverseMatrix) ==
  [steps |-> MatrixInverse_openingSteps(m) \o cof.cofactorSteps \o
             <<Step(3 + Len(cof.cofactorSteps), "Matriz de Cofactores Completa",
                    cof.cofactorMatrix, "cofactorMatrix", 0, 0),
               Step(4 + Len(cof.cofactorSteps), "Matriz Adjunta", adjugateMatrix,
                    "adjugateMatrix", 0, 0),
               Step(5 + Len(cof.cofactorSteps), "Matriz Inversa", inverseMatrix,
                    "inverseMatrix", 0, 0),
               Step(6 + Len(cof.cofactorSteps), "Verificacion",
                    MatrixInverse_multiplyMatrices(m, inverseMatrix),
                    "verificationMatrix", 0, 0)>>,
   result |-> InverseResult(TRUE, determinant, inverseMatrix,
                [i \in 1..Len(m) |-> [j \in 1..Len(m) |->
                   divide(fromDecimal(adjugateMatrix[i][j]), fromDecimal(determinant))]],
                adjugateMatrix)]

\* The adjugate is the transpose of the cofactor matrix and the inverse is
\* the adjugate over the determinant.
MatrixInverse_invert(m, determinant, cof) ==
  CHOOSE value \in
    {CHOOSE inverted \in
       {MatrixInverse_inverted(m, determinant, cof, adjugateMatrix, inverseMatrix) :
          inverseMatrix \in
            {[i \in 1..Len(m) |-> [j \in 1..Len(m) |->
                NumDiv(adjugateMatrix[i][j], determinant)]]}} : TRUE :
       adjugateMatrix \in {MatrixInverse_transposeMatrix(cof.cofactorMatrix)}} : TRUE

\* A singular branch that returns without its explanatory step.
MatrixInverse_calculateInverseSilent(m) ==
  CHOOSE value \in
    {IF nearZero(determinant)
     THEN [steps |-> MatrixInverse_openingSteps(m),
           result |-> InverseResult(FALSE, determinant, <<>>, <<>>, <<>>)]
     ELSE CHOOSE inverted \in
            {MatrixInverse_invert(m, determinant, cof) :
               cof \in {MatrixInverse_calculateCofactorMatrixDetailed(m, 3)}} : TRUE :
       determinant \in {LaplaceExpansion_calculateDeterminant(m).determinant}} : TRUE

MatrixInverse_calculateInverse(m) ==
  CHOOSE value \in
    {IF nearZero(determinant)
     THEN [steps |-> Append(MatrixInverse_openingSteps(m),
                            Step(3, "Matriz No Invertible", CopyRows(m), "copy", 0, 0)),
           result |-> InverseResult(FALSE, determinant, <<>>, <<>>, <<>>)]
     ELSE CHOOSE inverted \in
            {MatrixInverse_invert(m, determinant, cof) :
               cof \in {MatrixInverse_calculateCofactorMatrixDetailed(m, 3)}} : TRUE :
       determinant \in {LaplaceExpansion_calculateDeterminant(m).determinant}} : TRUE

(***************************************************************************)
(* The caller: a square matrix of integer entries and a constants vector,  *)
(* one call of an entry point, and what the call returned.  result holds   *)
(* the determinant, the Solution or the InverseResult of the call.         *)
(***************************************************************************)
Sizes == 1..MaxN

NumSet(V) == {Num(k) : k \in V}

MatrixMath_createIdentityMatrix(n) ==
  [i \in 1..n |-> [j \in 1..n |-> Num(IF i = j THEN 1 ELSE 0)]]

\* The identity with one row replaced by any row over -1..1.
OneRowOff(n) ==
  {[MatrixMath_createIdentityMatrix(n) EXCEPT ![r] = row] :
     r \in 1..n, row \in [1..n -> NumSet((-1)..1)]}

\* The matrices of the determinant and inverse runs: every matrix over
\* -MaxVal..MaxVal up to size 2, every matrix over -1..1 of size 3, and
\* the one-row-off-identity matrices above.
DetMatrices(n) ==
  IF n <= 2 THEN [1..n -> [1..n -> NumSet((-MaxVal)..MaxVal)]]
  ELSE IF n = 3 THEN [1..n -> [1..n -> NumSet((-1)..1)]]
  ELSE OneRowOff(n)

\* The matrices of the solver runs: size 3 over 0..1.
SolveMatrices(n) ==
  IF n <= 2 THEN [1..n -> [1..n -> NumSet((-MaxVal)..MaxVal)]]
  ELSE IF n = 3 THEN [1..n -> [1..n -> NumSet(0..1)]]
  ELSE OneRowOff(n)

NumVectors(n) == [1..n -> NumSet(IF n <= 3 THEN (-1)..1 ELSE 0..1)]

NumMatrix(rows) == [i \in 1..Len(rows) |-> [j \in 1..Len(rows[i]) |-> Num(rows[i][j])]]

NumVector(v) == [i \in 1..Len(v) |-> Num(v[i])]

\* EXAMPLE_SYSTEMS, the entry with id 'simple-2x2'.
EXAMPLE_SYSTEMS_simple2x2 ==
  [coefficientMatrix |-> NumMatrix(<<<<2, 1>>, <<1, 3>>>>),
   constantVector |-> NumVector(<<8, 13>>),
   expectedSolution |-> NumVector(<<1, 4>>)]

\* The systems the documentation and the example table name.
ExampleSystems ==
  { <<NumMatrix(<<<<1, 2>>, <<2, 4>>>>), NumVector(<<3, 6>>)>>,
    <<NumMatrix(<<<<1, 2>>, <<2, 4>>>>), NumVector(<<3, 7>>)>>,
    <<EXAMPLE_SYSTEMS_simple2x2.coefficientMatrix,
      EXAMPLE_SYSTEMS_simple2x2.constantVector>> }

ExampleMatrices ==
  { NumMatrix(<<<<5, -2, 4>>, <<6, 7, -3>>, <<3, 0, 2>>>>),
    NumMatrix(<<<<1, 2>>, <<3, 4>>>>) }

NoResult ==
  [kind |-> "none", thrown |-> FALSE, determinant |-> Num(0),
   hasDeterminant |-> FALSE, variables |-> <<>>,
   isUnique |-> FALSE, hasInfiniteSolutions |-> FALSE, hasNoSolution |-> FALSE,
   isInvertible |-> FALSE, inverseMatrix |-> <<>>, fractionInverseMatrix |-> <<>>,
   adjugateMatrix |-> <<>>, expansionFormula |-> <<>>]

DeterminantResult(d) ==
  [NoResult EXCEPT !.kind = "determinant", !.determinant = d, !.hasDeterminant = TRUE]

SolutionResult(sol) ==
  [NoResult EXCEPT !.kind = "solution", !.thrown = sol.thrown,
                   !.determinant = sol.determinant,
                   !.hasDeterminant = sol.hasDeterminant,
                   !.variables = sol.variables, !.isUnique = sol.isUnique,
                   !.hasInfiniteSolutions = sol.hasInfiniteSolutions,
                   !.hasNoSolution = sol.hasNoSolution]

InverseResultOf(r) ==
  [NoResult EXCEPT !.kind = "inverse", !.determinant = r.determinant,
                   !.hasDeterminant = TRUE, !.isInvertible = r.isInvertible,
                   !.inverseMatrix = r.inverseMatrix,
                   !.fractionInverseMatrix = r.fractionInverseMatrix,
                   !.adjugateMatrix = r.adjugateMatrix]

Idle ==
  /\ entry = "none"
  /\ steps = <<>>
  /\ result = NoResult
  /\ writes = 0
  /\ fa = Fraction(0, 1) /\ fb = Fraction(0, 1) /\ fr = Fraction(0, 1)
  /\ size = Num(3) /\ mode = "determinant" /\ method = "laplace"
  /\ currentStep = 1 /\ isPlaying = FALSE

InitDet ==
  /\ matrix \in UNION {DetMatrices(n) : n \in Sizes} \cup ExampleMatrices
  /\ constants = <<>>
  /\ Idle

InitSolve ==
  /\ \/ \E n \in Sizes : /\ matrix \in SolveMatrices(n)
                         /\ constants \in NumVectors(n)
     \/ \E e \in ExampleSystems : matrix = e[1] /\ constants = e[2]
  /\ Idle

\* The call returned r: the trace and the determinant d reach the caller.
ReturnDeterminant(name, r, d) ==
  /\ entry' = name
  /\ steps' = r.steps
  /\ result' = DeterminantResult(d)
  /\ UNCHANGED <<matrix, constants, writes, fa, fb, fr, ui>>

\* A cofactor engine returned r: its expansionFormula reaches the caller too.
ReturnExpansion(name, r, d) ==
  /\ entry' = name
  /\ steps' = r.steps
  /\ result' = [DeterminantResult(d) EXCEPT !.expansionFormula = r.expansionFormula]
  /\ UNCHANGED <<matrix, constants, writes, fa, fb, fr, ui>>

ReturnSolution(name, r) ==
  /\ entry' = name
  /\ steps' = r.steps
  /\ result' = SolutionResult(r.solution)
  /\ UNCHANGED <<matrix, constants, writes, fa, fb, fr, ui>>

CallLaplaceDeterminant ==
  /\ entry = "none"
  /\ \E r \in {LaplaceExpansion_calculateDeterminant(matrix)} :
        ReturnExpansion("LaplaceExpansion.calculateDeterminant", r, r.determinant)

CallLaplaceFractionsDeterminant ==
  /\ entry = "none"
  /\ \E r \in {LaplaceExpansionFractions_calculateDeterminant(matrix)} :
        ReturnExpansion("LaplaceExpansionFractions.calculateDeterminant", r,
                        r.fractionDeterminant)

CallGaussianDeterminant ==
  /\ entry = "none"
  /\ \E r \in {GaussianElimination_calculateDeterminant(matrix)} :
        ReturnDeterminant("GaussianElimination.calculateDeterminant", r, r.determinant)

CallGaussianFractionsDeterminant ==
  /\ entry = "none"
  /\ \E r \in {GaussianEliminationFractions_calculateDeterminant(matrix)} :
        ReturnDeterminant("GaussianEliminationFractions.calculateDeterminant", r, r.fractionDeterminant)

CallGaussJordanDeterminant ==
  /\ entry = "none"
  /\ \E r \in {GaussJordanDeterminant_calculateDeterminant(matrix)} :
        ReturnDeterminant("GaussJordanDeterminant.calculateDeterminant", r, r.determinant)

CallInverse ==
  /\ entry = "none"
  /\ \E r \in {MatrixInverse_calculateInverse(matrix)} :
        /\ steps' = r.steps
        /\ result' = InverseResultOf(r.result)
  /\ entry' = "MatrixInverse.calculateInverse"
  /\ UNCHANGED <<matrix, constants, writes, fa, fb, fr, ui>>

CallGaussianSolve ==
  /\ entry = "none"
  /\ Len(constants) = Len(matrix)
  /\ \E r \in {GaussianElimination_solve(matrix, constants)} :
        ReturnSolution("GaussianElimination.solve", r)

CallGaussianFractionsSolve ==
  /\ entry = "none"
  /\ Len(constants) = Len(matrix)
  /\ \E r \in {GaussianEliminationFractions_solve(matrix, constants)} :
        ReturnSolution("GaussianEliminationFractions.solve", r)

CallGaussJordanSolve ==
  /\ entry = "none"
  /\ Len(constants) = Len(matrix)
  /\ \E r \in {GaussJordanFractions_solve(matrix, constants)} :
        ReturnSolution("GaussJordanFractions.solve", r)

CallCramer ==
  /\ entry = "none"
  /\ Len(constants) = Len(matrix)
  /\ \E r \in {LaplaceExpansion_solveByCramersRule(matrix, constants)} :
        ReturnSolution("LaplaceExpansion.solveByCramersRule", r)

CallCramerFractions ==
  /\ entry = "none"
  /\ Len(constants) = Len(matrix)
  /\ \E r \in {LaplaceExpansionFractions_solveByCramersRule(matrix, constants)} :
        ReturnSolution("LaplaceExpansionFractions.solveByCramersRule", r)

(***************************************************************************)
(* Fraction on its own: the constructor and the arithmetic, the result of  *)
(* one operation feeding the next.                                         *)
(***************************************************************************)
FractionInit ==
  /\ matrix = <<>> /\ constants = <<>>
  /\ Idle

FractionReturn(name, f) ==
  /\ entry' = name
  /\ fr' = f
  /\ UNCHANGED <<matrix, constants, steps, result, writes, fa, fb, ui>>

\* new Fraction(numerator, denominator)
NewFraction ==
  \E numerator \in (-MaxFrac)..MaxFrac, denominator \in (-MaxFrac)..MaxFrac :
     FractionReturn("new Fraction", Fraction(numerator, denominator))

FractionAdd == FractionReturn("add", add(fa, fb))

FractionSubtract == FractionReturn("subtract", subtract(fa, fb))

FractionMultiply == FractionReturn("multiply", multiply(fa, fb))

FractionDivide == FractionReturn("divide", divide(fa, fb))

FractionAbs == FractionReturn("abs", abs(fa))

FractionNegate == FractionReturn("negate", negate(fa))

FractionClone == FractionReturn("clone", clone(fa))

\* The caller keeps the Fraction it was handed as the next left or right
\* operand, while its terms stay within MaxFrac.
KeepFraction ==
  /\ ~isThrown(fr)
  /\ Abs(fr.numerator) <= MaxFrac
  /\ Abs(fr.denominator) <= MaxFrac
  /\ \/ fa' = fr /\ fb' = fb
     \/ fb' = fr /\ fa' = fa
  /\ UNCHANGED <<matrix, constants, entry, steps, result, writes, fr, ui>>

NextFraction ==
  \/ NewFraction
  \/ FractionAdd
  \/ FractionSubtract
  \/ FractionMultiply
  \/ FractionDivide
  \/ FractionAbs
  \/ FractionNegate
  \/ FractionClone
  \/ KeepFraction

(***************************************************************************)
(* The cofactor engines on matrices of size ExpandN, whose minors are      *)
(* themselves expanded: a first row and a lower right block over 0..1, the *)
(* rest of the first column 1.                                             *)
(***************************************************************************)
ExpandN == 4

ExpandMatrices ==
  {[i \in 1..ExpandN |->
      IF i = 1 THEN top ELSE <<Num(1)>> \o block[i - 1]] :
     top \in [1..ExpandN -> NumSet(0..1)],
     block \in [1..(ExpandN - 1) -> [1..(ExpandN - 1) -> NumSet(0..1)]]}

InitExpand ==
  /\ matrix \in ExpandMatrices
  /\ constants = <<>>
  /\ Idle

NextExpand ==
  \/ CallLaplaceDeterminant
  \/ CallLaplaceFractionsDeterminant

SpecExpand == InitExpand /\ [][NextExpand]_vars

(***************************************************************************)
(* Fraction.fromDecimal on its own: fa is the decimal, fb holds            *)
(* maxDenominator as a whole number, fr is the Fraction returned.          *)
(***************************************************************************)
MaxDecimal == 7

\* The doubles tried: the values p/q with terms up to MaxDecimal.
Decimals ==
  {Fraction(p, q) : p \in (-MaxDecimal)..MaxDecimal, q \in 1..MaxDecimal}

DecimalInit ==
  /\ matrix = <<>> /\ constants = <<>>
  /\ entry = "none"
  /\ steps = <<>>
  /\ result = NoResult
  /\ writes = 0
  /\ fr = Fraction(0, 1)
  /\ size = Num(3) /\ mode = "determinant" /\ method = "laplace"
  /\ currentStep = 1 /\ isPlaying = FALSE
  /\ fa \in Decimals
  /\ fb \in {Num(d) : d \in 1..MaxDecimal} \cup {Num(DefaultMaxDenominator)}

CallFromDecimal ==
  /\ entry = "none"
  /\ FractionReturn("Fraction.fromDecimal", Fraction_fromDecimal(fa, fb.numerator))

SpecDecimal == DecimalInit /\ [][CallFromDecimal]_vars

(***************************************************************************)
(* The caller writing into its own matrix after the call returned.  A step *)
(* whose matrix field is the caller's array shows the write.               *)
(***************************************************************************)
MaxWrites == 1

AliasInit ==
  /\ \E n \in 1..2 : /\ matrix \in [1..n -> [1..n -> NumSet((-1)..1)]]
                     /\ constants = [i \in 1..n |-> Num(1)]
  /\ Idle

MutateInput ==
  /\ entry # "none"
  /\ writes < MaxWrites
  /\ \E i \in 1..Len(matrix), j \in 1..Len(matrix), v \in NumSet((-1)..1) :
        /\ v # matrix[i][j]
        /\ matrix' = [matrix EXCEPT ![i][j] = v]
  /\ steps' = [k \in 1..Len(steps) |->
                 IF steps[k].storage = "input"
                 THEN [steps[k] EXCEPT !.matrix = matrix']
                 ELSE steps[k]]
  /\ writes' = writes + 1
  /\ UNCHANGED <<constants, entry, result, fa, fb, fr, ui>>

NextDet ==
  \/ CallLaplaceDeterminant
  \/ CallLaplaceFractionsDeterminant
  \/ CallGaussianDeterminant
  \/ CallGaussianFractionsDeterminant
  \/ CallGaussJordanDeterminant

NextSolve ==
  \/ CallGaussianSolve
  \/ CallGaussianFractionsSolve
  \/ CallGaussJordanSolve
  \/ CallCramer
  \/ CallCramerFractions

Next ==
  \/ NextDet
  \/ CallInverse
  \/ NextSolve

\* The five determinant engines on one matrix.
SpecDet == InitDet /\ [][NextDet]_vars

\* The adjugate inverse.
SpecInverse == InitDet /\ [][CallInverse]_vars

\* The five solvers on one system.
SpecSolve == InitSolve /\ [][NextSolve]_vars

\* Every entry point on one system.
Spec == InitSolve /\ [][Next]_vars

(***************************************************************************)
(* The matrix primitives as the arrays they return.  A returned matrix is  *)
(* rows, its entries, and of: of[i] is 0 when row i is a new array and k   *)
(* when it is the very array that is row k of the argument.  A call is     *)
(* seen by its caller as the arrays returned and the entries of the        *)
(* argument once the call is over.                                         *)
(***************************************************************************)
NewArrays(rows) == [rows |-> rows, of |-> [i \in 1..Len(rows) |-> 0]]

\* [...matrix]: a new outer array over the rows of the argument.
MatrixMath_cloneMatrixShallow(m) == [rows |-> m, of |-> [i \in 1..Len(m) |-> i]]

\* matrix.map(row => [...row])
MatrixMath_cloneMatrixArrays(m) == NewArrays(MatrixMath_cloneMatrix(m))

\* matrix.map(row => row.map(f => f.clone()))
FractionMatrixUtils_cloneMatrixArrays(m) == NewArrays(FractionMatrixUtils_cloneMatrix(m))

Outcome(returned, argument) == [returned |-> returned, argument |-> argument]

\* result[i][j] = v, stored into the array that row i of result is.
WriteEntry(out, i, j, v) ==
  [returned |-> [out.returned EXCEPT !.rows[i][j] = v],
   argument |-> IF out.returned.of[i] = 0 THEN out.argument
                ELSE [out.argument EXCEPT ![out.returned.of[i]][j] = v]]

\* [result[row1], result[row2]] = [result[row2], result[row1]]
ExchangeRows(res, row1, row2) ==
  [rows |-> [res.rows EXCEPT ![row1] = res.rows[row2],
                                ![row2] = res.rows[row1]],
   of |-> [res.of EXCEPT ![row1] = res.of[row2], ![row2] = res.of[row1]]]

\* result[rowIndex] = result[rowIndex].map(...): row rowIndex is a new array.
ReplaceRow(res, rowIndex, row) ==
  [rows |-> [res.rows EXCEPT ![rowIndex] = row],
   of |-> [res.of EXCEPT ![rowIndex] = 0]]

MatrixMath_swapRowsArrays(m, row1, row2) ==
  Outcome(ExchangeRows(MatrixMath_cloneMatrixArrays(m), row1, row2), m)

MatrixMath_multiplyRowArrays(m, rowIndex, scalar) ==
  CHOOSE out \in
    {Outcome(ReplaceRow(res, rowIndex,
                        [j \in 1..Len(res.rows[rowIndex]) |->
                           NumMul(res.rows[rowIndex][j], scalar)]), m) :
       res \in {MatrixMath_cloneMatrixArrays(m)}} : TRUE

\* The loop of addRowMultiple from column j on:
\* result[targetRow][j] += result[sourceRow][j] * multiplier
RECURSIVE MatrixMath_addRowMultipleFrom(_, _, _, _, _)
MatrixMath_addRowMultipleFrom(out, targetRow, sourceRow, multiplier, j) ==
  IF j > Len(out.argument[1]) THEN out
  ELSE MatrixMath_addRowMultipleFrom(
         WriteEntry(out, targetRow, j,
                    NumAdd(out.returned.rows[targetRow][j],
                           NumMul(out.returned.rows[sourceRow][j], multiplier))),
         targetRow, sourceRow, multiplier, j + 1)

MatrixMath_addRowMultipleArrays(m, targetRow, sourceRow, multiplier) ==
  MatrixMath_addRowMultipleFrom(Outcome(MatrixMath_cloneMatrixArrays(m), m),
                                targetRow, sourceRow, multiplier, 1)

\* filter and map build new arrays.
MatrixMath_getMinorArrays(m, excludeRow, excludeCol) ==
  Outcome(NewArrays(MatrixMath_getMinor(m, excludeRow, excludeCol)), m)

\* [...vector]: the vector is held as the one row of rows.
MatrixMath_cloneVectorArrays(v) == Outcome(NewArrays(<<MatrixMath_cloneVector(v)>>), <<v>>)

FractionMatrixUtils_swapRowsArrays(m, row1, row2) ==
  Outcome(ExchangeRows(FractionMatrixUtils_cloneMatrixArrays(m), row1, row2), m)

FractionMatrixUtils_multiplyRowArrays(m, rowIndex, multiplier) ==
  CHOOSE out \in
    {Outcome(ReplaceRow(res, rowIndex,
                        [j \in 1..Len(res.rows[rowIndex]) |->
                           multiply(res.rows[rowIndex][j], multiplier)]), m) :
       res \in {FractionMatrixUtils_cloneMatrixArrays(m)}} : TRUE

\* The loop of addRowMultiple from column j on:
\* result[targetRow][j] = result[targetRow][j].add(result[sourceRow][j].multiply(multiplier))
RECURSIVE FractionMatrixUtils_addRowMultipleFrom(_, _, _, _, _)
FractionMatrixUtils_addRowMultipleFrom(out, targetRow, sourceRow, multiplier, j) ==
  IF j > Len(out.argument[1]) THEN out
  ELSE FractionMatrixUtils_addRowMultipleFrom(
         WriteEntry(out, targetRow, j,
                    add(out.returned.rows[targetRow][j],
                        multiply(out.returned.rows[sourceRow][j], multiplier))),
         targetRow, sourceRow, multiplier, j + 1)

FractionMatrixUtils_addRowMultipleArrays(m, targetRow, sourceRow, multiplier) ==
  FractionMatrixUtils_addRowMultipleFrom(
    Outcome(FractionMatrixUtils_cloneMatrixArrays(m), m),
    targetRow, sourceRow, multiplier, 1)

(***************************************************************************)
(* A caller that hands its matrix or its constants to a primitive or to an *)
(* entry point, and then writes into the arrays a primitive returned.      *)
(* result holds those arrays and which argument they were made from.       *)
(***************************************************************************)
ReturnArrays(name, out) ==
  /\ entry' = name
  /\ result' = [kind |-> "arrays", rows |-> out.returned.rows, of |-> out.returned.of,
                argument |-> "matrix"]
  /\ matrix' = out.argument
  /\ UNCHANGED <<constants, steps, writes, fa, fb, fr, ui>>

Scalars == NumSet((-1)..1)

CallCloneMatrix ==
  /\ entry = "none"
  /\ ReturnArrays("MatrixMath.cloneMatrix", Outcome(MatrixMath_cloneMatrixArrays(matrix), matrix))

CallCloneVector ==
  /\ entry = "none"
  /\ \E out \in {MatrixMath_cloneVectorArrays(constants)} :
        /\ entry' = "MatrixMath.cloneVector"
        /\ result' = [kind |-> "arrays", rows |-> out.returned.rows,
                      of |-> out.returned.of, argument |-> "constants"]
        /\ constants' = out.argument[1]
        /\ UNCHANGED <<matrix, steps, writes, fa, fb, fr, ui>>

CallSwapRows ==
  /\ entry = "none"
  /\ \E row1, row2 \in 1..Len(matrix) :
        ReturnArrays("MatrixMath.swapRows", MatrixMath_swapRowsArrays(matrix, row1, row2))

CallMultiplyRow ==
  /\ entry = "none"
  /\ \E rowIndex \in 1..Len(matrix), scalar \in Scalars :
        ReturnArrays("MatrixMath.multiplyRow",
                     MatrixMath_multiplyRowArrays(matrix, rowIndex, scalar))

CallAddRowMultiple ==
  /\ entry = "none"
  /\ \E targetRow, sourceRow \in 1..Len(matrix), multiplier \in Scalars :
        ReturnArrays("MatrixMath.addRowMultiple",
                     MatrixMath_addRowMultipleArrays(matrix, targetRow, sourceRow,
                                                     multiplier))

CallGetMinor ==
  /\ entry = "none"
  /\ \E excludeRow, excludeCol \in 1..Len(matrix) :
        ReturnArrays("MatrixMath.getMinor",
                     MatrixMath_getMinorArrays(matrix, excludeRow, excludeCol))

CallFractionCloneMatrix ==
  /\ entry = "none"
  /\ ReturnArrays("FractionMatrixUtils.cloneMatrix",
                  Outcome(FractionMatrixUtils_cloneMatrixArrays(matrix), matrix))

CallFractionSwapRows ==
  /\ entry = "none"
  /\ \E row1, row2 \in 1..Len(matrix) :
        ReturnArrays("FractionMatrixUtils.swapRows",
                     FractionMatrixUtils_swapRowsArrays(matrix, row1, row2))

CallFractionMultiplyRow ==
  /\ entry = "none"
  /\ \E rowIndex \in 1..Len(matrix), multiplier \in Scalars :
        ReturnArrays("FractionMatrixUtils.multiplyRow",
                     FractionMatrixUtils_multiplyRowArrays(matrix, rowIndex, multiplier))

CallFractionAddRowMultiple ==
  /\ entry = "none"
  /\ \E targetRow, sourceRow \in 1..Len(matrix), multiplier \in Scalars :
        ReturnArrays("FractionMatrixUtils.addRowMultiple",
                     FractionMatrixUtils_addRowMultipleArrays(matrix, targetRow,
                                                              sourceRow, multiplier))

\* The caller stores v into entry (i, j) of the arrays it was returned: the
\* store lands in the argument when row i is one of the argument's arrays.
MutateReturned ==
  /\ result.kind = "arrays"
  /\ writes < MaxWrites
  /\ \E i \in 1..Len(result.rows) :
       \E j \in 1..Len(result.rows[i]), v \in Scalars :
          /\ v # result.rows[i][j]
          /\ result' = [result EXCEPT !.rows[i][j] = v]
          /\ matrix' = IF result.argument = "matrix" /\ result.of[i] # 0
                       THEN [matrix EXCEPT ![result.of[i]][j] = v]
                       ELSE matrix
          /\ constants' = IF result.argument = "constants" /\ result.of[i] # 0
                          THEN [constants EXCEPT ![j] = v]
                          ELSE constants
  /\ writes' = writes + 1
  /\ UNCHANGED <<entry, steps, fa, fb, fr, ui>>

NextArrays ==
  \/ CallCloneMatrix
  \/ CallCloneVector
  \/ CallSwapRows
  \/ CallMultiplyRow
  \/ CallAddRowMultiple
  \/ CallGetMinor
  \/ CallFractionCloneMatrix
  \/ CallFractionSwapRows
  \/ CallFractionMultiplyRow
  \/ CallFractionAddRowMultiple
  \/ MutateReturned
  \/ Next

\* The primitives, the entry points, and the caller's stores.
SpecArrays == AliasInit /\ [][NextArrays]_vars

(***************************************************************************)
(* The page (src/App.tsx): the size field, the cells of the matrix and of  *)
(* the constants, the example and clear buttons, the mode and the method.  *)
(* writes counts the cells the user has typed into.                        *)
(***************************************************************************)
MaxEdits == 1

\* parseInt(e.target.value): a whole number, or NaN for an empty or
\* non-numeric field.
NaN == NonFinite

ParsedSizes == NumSet(1..7) \cup {NaN}

\* x < y on numbers: false when either is NaN.
NumLessThan(x, y) ==
  /\ isFinite(x) /\ isFinite(y)
  /\ x.numerator * y.denominator < y.numerator * x.denominator

\* The length Array.from({ length: n }) gives: ToLength(NaN) is 0.
ArrayLength(n) ==
  IF isFinite(n) /\ n.numerator > 0 THEN n.numerator \div n.denominator ELSE 0

\* matrix[i]?.[j] || 0
EntryOrZero(m, i, j) ==
  IF i <= Len(m) /\ j <= Len(m[i]) /\ isFinite(m[i][j]) THEN m[i][j] ELSE Num(0)

\* constants[i] || 0
ConstantOrZero(v, i) == IF i <= Len(v) /\ isFinite(v[i]) THEN v[i] ELSE Num(0)

\* setSteps([]); setDeterminant(null); setSolution(null); ...  With no
\* steps the page does not render the StepsVisualizer ({steps.length > 0 &&
\* ...}): its state is gone, and the next one starts from useState(1) and
\* useState(false).
ClearResults ==
  /\ steps' = <<>>
  /\ result' = NoResult
  /\ entry' = "none"
  /\ currentStep' = 1
  /\ isPlaying' = FALSE

\* if (newSize < 2 || newSize > 6) return;
handleSizeChangeRejects(newSize) ==
  NumLessThan(newSize, Num(2)) \/ NumLessThan(Num(6), newSize)

handleSizeChange(newSize) ==
  IF handleSizeChangeRejects(newSize)
  THEN UNCHANGED vars
  ELSE /\ size' = newSize
       /\ matrix' = [i \in 1..ArrayLength(newSize) |->
                       [j \in 1..ArrayLength(newSize) |-> EntryOrZero(matrix, i, j)]]
       /\ constants' = [i \in 1..ArrayLength(newSize) |-> ConstantOrZero(constants, i)]
       /\ ClearResults
       /\ UNCHANGED <<writes, fa, fb, fr, mode, method>>

\* The size field changed: onChange={(e) => handleSizeChange(parseInt(e.target.value))}
SizeInput == \E newSize \in ParsedSizes : handleSizeChange(newSize)

\* A cell of the grid MatrixInput renders, size x size, was typed into.
handleMatrixChange ==
  /\ writes < MaxEdits
  /\ \E row \in 1..ArrayLength(size), col \in 1..ArrayLength(size), value \in NumSet({1}) :
        matrix' = [matrix EXCEPT ![row][col] = value]
  /\ writes' = writes + 1
  /\ UNCHANGED <<constants, entry, steps, result, fa, fb, fr, ui>>

\* A cell of the constants, shown in system mode, was typed into.
ConstantInput ==
  /\ mode = "system"
  /\ writes < MaxEdits
  /\ \E i \in 1..Len(constants), newValue \in NumSet({1}) :
        constants' = [constants EXCEPT ![i] = newValue]
  /\ writes' = writes + 1
  /\ UNCHANGED <<matrix, entry, steps, result, fa, fb, fr, ui>>

\* The examples Math.random draws: entries -5..4, constants -10..9.  One
\* value on the diagonal and one off it.
RandomExamples(n) ==
  {[newMatrix |-> [i \in 1..n |-> [j \in 1..n |-> Num(IF i = j THEN d ELSE o)]],
    newConstants |-> [i \in 1..n |-> Num(c)]] :
     d \in {-5, 4}, o \in {0, 4}, c \in {-10, 9}}

generateRandomMatrix ==
  /\ \E example \in RandomExamples(ArrayLength(size)) :
        /\ matrix' = example.newMatrix
        /\ constants' = example.newConstants
  /\ ClearResults
  /\ UNCHANGED <<writes, fa, fb, fr, size, mode, method>>

\* Array(size) throws a RangeError when size is NaN: the matrix was set,
\* the constants and the results were not.
clearMatrix ==
  /\ matrix' = [i \in 1..ArrayLength(size) |-> [j \in 1..ArrayLength(size) |-> Num(0)]]
  /\ IF isFinite(size)
     THEN /\ constants' = [i \in 1..ArrayLength(size) |-> Num(0)]
          /\ ClearResults
     ELSE UNCHANGED <<constants, steps, result, entry, currentStep, isPlaying>>
  /\ UNCHANGED <<writes, fa, fb, fr, size, mode, method>>

\* The three mode buttons; system and inverse set their default method.
SetMode ==
  /\ \/ mode' = "determinant" /\ method' = method
     \/ mode' = "system" /\ method' = "gauss-jordan"
     \/ mode' = "inverse" /\ method' = "laplace"
  /\ UNCHANGED <<matrix, constants, entry, steps, result, writes, fa, fb, fr,
                 size, currentStep, isPlaying>>

\* The two method buttons, disabled in system mode.
SetMethod ==
  /\ mode # "system"
  /\ method' \in {"gauss-jordan", "laplace"}
  /\ UNCHANGED <<matrix, constants, entry, steps, result, writes, fa, fb, fr,
                 size, mode, currentStep, isPlaying>>

InitPage ==
  /\ matrix = [i \in 1..3 |-> [j \in 1..3 |-> Num(0)]]
  /\ constants = [i \in 1..3 |-> Num(0)]
  /\ Idle

NextPage ==
  \/ SizeInput
  \/ handleMatrixChange
  \/ ConstantInput
  \/ generateRandomMatrix
  \/ clearMatrix
  \/ SetMode
  \/ SetMethod

SpecPage == InitPage /\ [][NextPage]_vars

SpecFraction == FractionInit /\ [][NextFraction]_vars

SpecAlias == AliasInit /\ [][Next \/ MutateInput]_vars

(***************************************************************************)
(* Reference linear algebra over the integers, for stating what the        *)
(* engines should compute: the determinant by expansion along the first    *)
(* row, and the rank as the size of the largest nonzero minor.             *)
(***************************************************************************)
IntMatrix(m) == [i \in 1..Len(m) |-> [j \in 1..Len(m[i]) |-> m[i][j].numerator]]

RECURSIVE RefDet(_)
RefDet(a) ==
  IF Len(a) = 0 THEN 1
  ELSE LET n == Len(a)
           Minor(j) == [r \in 1..(n - 1) |->
                          [c \in 1..(n - 1) |-> a[r + 1][IF c < j THEN c ELSE c + 1]]]
           RECURSIVE Terms(_)
           Terms(j) == IF j > n THEN 0
                       ELSE (IF a[1][j] = 0 THEN 0
                             ELSE (IF j % 2 = 1 THEN 1 ELSE -1) * a[1][j] * RefDet(Minor(j)))
                            + Terms(j + 1)
       IN  Terms(1)

RECURSIVE Ascending(_)
Ascending(S) ==
  IF S = {} THEN <<>>
  ELSE LET x == CHOOSE y \in S : \A z \in S : y <= z
       IN  <<x>> \o Ascending(S \ {x})

SubMatrix(a, R, C) ==
  LET rs == Ascending(R)
      cs == Ascending(C)
  IN  [i \in 1..Len(rs) |-> [j \in 1..Len(cs) |-> a[rs[i]][cs[j]]]]

\* The rank of a matrix of rows x cols integers.
RefRank(a, rows, cols) ==
  LET Full(k) == \E R \in SUBSET (1..rows) : \E C \in SUBSET (1..cols) :
                    /\ Cardinality(R) = k /\ Cardinality(C) = k
                    /\ RefDet(SubMatrix(a, R, C)) # 0
  IN  CHOOSE k \in 0..rows : Full(k) /\ \A k2 \in (k + 1)..rows : ~Full(k2)

RankA == RefRank(IntMatrix(matrix), Len(matrix), Len(matrix))

RankAb ==
  RefRank(IntMatrix(MatrixMath_createAugmentedMatrix(matrix, constants)),
          Len(matrix), Len(matrix) + 1)

\* a x b in exact arithmetic
RefProduct(a, b) ==
  LET n == Len(a)
      RECURSIVE Sum(_, _, _)
      Sum(i, j, k) == IF k > n THEN Fraction(0, 1)
                      ELSE add(multiply(a[i][k], b[k][j]), Sum(i, j, k + 1))
  IN  [i \in 1..n |-> [j \in 1..n |-> Sum(i, j, 1)]]

DeterminantEntries ==
  {"LaplaceExpansion.calculateDeterminant",
   "LaplaceExpansionFractions.calculateDeterminant",
   "GaussianElimination.calculateDeterminant",
   "GaussianEliminationFractions.calculateDeterminant",
   "GaussJordanDeterminant.calculateDeterminant"}

(***************************************************************************)
(* C1.  On every square integer matrix the cofactor engines (floating and  *)
(* rational) return the determinant the elimination engines (Gauss-Jordan, *)
(* Gaussian floating and rational) return: whatever engine was called, its *)
(* determinant is the one each cofactor engine and each elimination engine *)
(* returns on the same matrix, and the documented 3x3 matrix gives 28.     *)
(***************************************************************************)
C1_EnginesAgree ==
  entry \in DeterminantEntries =>
    /\ result.determinant = LaplaceExpansion_calculateDeterminant(matrix).determinant
    /\ result.determinant =
         LaplaceExpansionFractions_calculateDeterminant(matrix).fractionDeterminant
    /\ result.determinant =
         GaussJordanDeterminant_calculateDeterminant(matrix).determinant
    /\ result.determinant =
         GaussianElimination_calculateDeterminant(matrix).determinant
    /\ result.determinant =
         GaussianEliminationFractions_calculateDeterminant(matrix).fractionDeterminant
    /\ (matrix = NumMatrix(<<<<5, -2, 4>>, <<6, 7, -3>>, <<3, 0, 2>>>>)
          => result.determinant = Num(28))

C1_Witness ==
  /\ entry = "GaussJordanDeterminant.calculateDeterminant"
  /\ matrix = NumMatrix(<<<<5, -2, 4>>, <<6, 7, -3>>, <<3, 0, 2>>>>)
  /\ result.determinant = Num(28)

(***************************************************************************)
(* C2.  GaussJordanFractions.solve reports a consistent system of          *)
(* dependent equations (rank A = rank [A|b] < n) with hasInfiniteSolutions *)
(* and reports hasNoSolution only for an inconsistent system               *)
(* (rank A < rank [A|b]).                                                  *)
(***************************************************************************)
C2_DependentIsInfinite ==
  (entry = "GaussJordanFractions.solve" /\ ~result.thrown) =>
    /\ (RankA = RankAb /\ RankA < Len(matrix)) => result.hasInfiniteSolutions
    /\ result.hasNoSolution => RankA < RankAb

(***************************************************************************)
(* C3.  Every Solution a solver returns has exactly one of isUnique,       *)
(* hasInfiniteSolutions and hasNoSolution true, and its variables are      *)
(* empty unless isUnique is true.                                          *)
(***************************************************************************)
C3_OneFlag ==
  (result.kind = "solution" /\ ~result.thrown) =>
    /\ Cardinality({f \in {"isUnique", "hasInfiniteSolutions", "hasNoSolution"} :
                      result[f]}) = 1
    /\ (~result.isUnique => result.variables = <<>>)

C3_Witness ==
  /\ entry = "GaussianElimination.solve"
  /\ Len(matrix) = 3
  /\ result.hasNoSolution /\ ~result.isUnique /\ ~result.hasInfiniteSolutions
  /\ result.variables = <<>>

(***************************************************************************)
(* C4.  For every nonsingular square matrix A,                             *)
(* MatrixInverse.calculateInverse returns isInvertible = true and an       *)
(* inverseMatrix with inverseMatrix x A = Identity and                     *)
(* A x inverseMatrix = Identity.                                           *)
(***************************************************************************)
C4_InverseIsInverse ==
  (entry = "MatrixInverse.calculateInverse" /\ RefDet(IntMatrix(matrix)) # 0) =>
    /\ result.isInvertible
    /\ RefProduct(result.inverseMatrix, matrix) = MatrixMath_createIdentityMatrix(Len(matrix))
    /\ RefProduct(matrix, result.inverseMatrix) = MatrixMath_createIdentityMatrix(Len(matrix))

(***************************************************************************)
(* C5.  Every Fraction the constructor, add, subtract, multiply, divide,   *)
(* abs, negate or clone produces has a positive denominator and numerator  *)
(* and denominator without a common factor; (2,4) is 1/2, (-3,-6) is 1/2,  *)
(* (3,-6) is -1/2 and zero is 0/1.                                         *)
(***************************************************************************)
C5_LowestTerms ==
  /\ \A f \in {fa, fb, fr} :
        ~isThrown(f) => /\ f.denominator > 0
                        /\ \A d \in 2..f.denominator :
                              ~(f.denominator % d = 0 /\ Abs(f.numerator) % d = 0)
  /\ Fraction(2, 4) = [numerator |-> 1, denominator |-> 2]
  /\ Fraction(-3, -6) = [numerator |-> 1, denominator |-> 2]
  /\ Fraction(3, -6) = [numerator |-> -1, denominator |-> 2]
  /\ Fraction(0, -3) = [numerator |-> 0, denominator |-> 1]

C5_Witness ==
  /\ entry = "divide"
  /\ fa = [numerator |-> 1, denominator |-> 2]
  /\ fb = [numerator |-> -1, denominator |-> 4]
  /\ fr = [numerator |-> -2, denominator |-> 1]

(***************************************************************************)
(* C6.  No entry point raises an error, whatever the coefficient matrix    *)
(* and the constants: every call returns a classified result.              *)
(***************************************************************************)
C6_NeverRaises == entry # "none" => ~result.thrown

(***************************************************************************)
(* C7.  GaussJordanFractions.solve on the example 'simple-2x2'             *)
(* (A = [[2,1],[1,3]], b = [8,13]) returns isUnique = true and the         *)
(* variables the example records as expectedSolution, [1, 4].              *)
(***************************************************************************)
C7_ExpectedSolution ==
  (/\ entry = "GaussJordanFractions.solve"
   /\ matrix = EXAMPLE_SYSTEMS_simple2x2.coefficientMatrix
   /\ constants = EXAMPLE_SYSTEMS_simple2x2.constantVector) =>
    /\ result.isUnique
    /\ result.variables = EXAMPLE_SYSTEMS_simple2x2.expectedSolution
    /\ result.variables = <<Num(1), Num(4)>>

(***************************************************************************)
(* C8.  In the steps one call returns, the k-th step has id k: the ids     *)
(* start at 1 and rise by one, through the recursive expansion, the        *)
(* embedded traces of Cramer's rule, the cofactor steps of the inverse and *)
(* every early return.                                                     *)
(***************************************************************************)
C8_StepIds == \A k \in 1..Len(steps) : steps[k].id = k

C8_Witness ==
  /\ entry = "LaplaceExpansionFractions.solveByCramersRule"
  /\ Len(matrix) = 3
  /\ result.isUnique
  /\ Len(steps) > 20

(***************************************************************************)
(* C9.  The matrix recorded in an emitted step never changes afterwards:   *)
(* once a call has returned, a write by the caller into its input matrix   *)
(* leaves every step as it was.                                            *)
(***************************************************************************)
C9_StepsFrozen == [][entry # "none" => steps' = steps]_vars

(***************************************************************************)
(* C10.  GaussianElimination.solve and GaussianEliminationFractions.solve  *)
(* on a 2x2 system with proportional coefficient rows and a first column   *)
(* that is not all zero: hasInfiniteSolutions when the constants are in    *)
(* the same proportion, hasNoSolution when they are not (the inconsistency *)
(* check comes before the rank check).                                     *)
(***************************************************************************)
C10_Proportional ==
  LET a == IntMatrix(matrix)
      b == [i \in 1..Len(constants) |-> constants[i].numerator]
  IN  (/\ entry \in {"GaussianElimination.solve", "GaussianEliminationFractions.solve"}
       /\ Len(matrix) = 2
       /\ a[1][1] * a[2][2] - a[1][2] * a[2][1] = 0
       /\ (a[1][1] # 0 \/ a[2][1] # 0)) =>
        /\ ~result.thrown /\ ~result.isUnique
        /\ IF a[1][1] * b[2] - a[2][1] * b[1] = 0 /\ a[1][2] * b[2] - a[2][2] * b[1] = 0
           THEN result.hasInfiniteSolutions /\ ~result.hasNoSolution
           ELSE result.hasNoSolution /\ ~result.hasInfiniteSolutions
        /\ (matrix = NumMatrix(<<<<1, 2>>, <<2, 4>>>>) /\ constants = NumVector(<<3, 6>>)
              => result.hasInfiniteSolutions)
        /\ (matrix = NumMatrix(<<<<1, 2>>, <<2, 4>>>>) /\ constants = NumVector(<<3, 7>>)
              => result.hasNoSolution)

C10_Witness ==
  /\ entry = "GaussianEliminationFractions.solve"
  /\ matrix = NumMatrix(<<<<1, 2>>, <<2, 4>>>>)
  /\ constants = NumVector(<<3, 7>>)
  /\ result.hasNoSolution

\* The columns of the last recorded working matrix that are zero at and
\* below the diagonal while the columns before them are reduced.
C11_ZeroPivotColumns ==
  LET n == Len(matrix)
      w == steps[Len(steps)].matrix
  IN  {i \in 1..n :
         /\ \A k \in i..n : w[k][i] = Num(0)
         /\ \A c \in 1..(i - 1) :
               w[c][c] = Num(1) /\ \A k \in (c + 1)..n : w[k][c] = Num(0)}

C12_WithinMaxDenominator ==
  entry = "Fraction.fromDecimal" => fr.denominator <= fb.numerator

RECURSIVE FormulaValue(_, _)
FormulaValue(terms, k) ==
  IF k > Len(terms) THEN Num(0)
  ELSE NumAdd(NumMul(Num(IF terms[k].displaySign \in {"-", " - "} THEN -1 ELSE 1),
                     NumMul(terms[k].literal, terms[k].minorDet)),
              FormulaValue(terms, k + 1))

(***************************************************************************)
(* C14.  The expansionFormula the cofactor engines (floating and rational) *)
(* return has correct signs: for every square matrix of size >= 2, read as *)
(* arithmetic (the signed sum of literal x minor determinant along the     *)
(* chosen axis) it gives the returned determinant; the documented 3x3      *)
(* matrix gives (3) x (-22) ... + (2) x (47), which is 28.                 *)
(***************************************************************************)
C14_FormulaSigns ==
  (/\ entry \in {"LaplaceExpansion.calculateDeterminant",
                 "LaplaceExpansionFractions.calculateDeterminant"}
   /\ Len(matrix) >= 2) =>
    /\ FormulaValue(result.expansionFormula, 1) = result.determinant
    /\ matrix = NumMatrix(<<<<5, -2, 4>>, <<6, 7, -3>>, <<3, 0, 2>>>>) =>
          /\ FormulaValue(result.expansionFormula, 1) = Num(28)
          /\ result.expansionFormula[1] =
                [displaySign |-> "", literal |-> Num(3), minorDet |-> Num(-22)]
          /\ result.expansionFormula[3] =
                [displaySign |-> " + ", literal |-> Num(2), minorDet |-> Num(47)]

\* The zero entries of row i and of column j of the caller's matrix.
RefRowZeros(i) == Cardinality({j \in 1..Len(matrix) : matrix[i][j] = Num(0)})

RefColZeros(j) == Cardinality({i \in 1..Len(matrix) : matrix[i][j] = Num(0)})

\* What findOptimalExpansionRowOrColumn of the engine that was called
\* returns on the caller's matrix.
ChosenAxis ==
  IF entry = "LaplaceExpansion.calculateDeterminant"
  THEN LaplaceExpansion_findOptimalExpansionRowOrColumn(matrix)
  ELSE LaplaceExpansionFractions_findOptimalExpansionRowOrColumn(
         FractionMatrixUtils_fromNumberMatrix(matrix))

(***************************************************************************)
(* C15.  findOptimalExpansionRowOrColumn (floating and rational) returns   *)
(* an axis whose zero count is the greatest over all rows and columns; on  *)
(* a tie a row beats a column and the lowest index wins within a type.  A  *)
(* full zero row selects a row with zeroCount n, a matrix without a zero   *)
(* selects the first row with zeroCount 0.  The selection step of the      *)
(* trace names that axis.                                                  *)
(***************************************************************************)
C15_OptimalAxis ==
  entry \in {"LaplaceExpansion.calculateDeterminant",
             "LaplaceExpansionFractions.calculateDeterminant"} =>
    LET n == Len(matrix)
        o == ChosenAxis
        best == CHOOSE z \in 0..n :
                  /\ \A i \in 1..n : RefRowZeros(i) <= z /\ RefColZeros(i) <= z
                  /\ \E i \in 1..n : RefRowZeros(i) = z \/ RefColZeros(i) = z
        bestRows == {i \in 1..n : RefRowZeros(i) = best}
        bestCols == {j \in 1..n : RefColZeros(j) = best}
    IN  /\ o.zeroCount = best
        /\ o.type = "row" <=> bestRows # {}
        /\ o.type = "row" => o.index \in bestRows /\ \A i \in bestRows : o.index <= i
        /\ o.type = "column" => o.index \in bestCols /\ \A j \in bestCols : o.index <= j
        /\ (\E i \in 1..n : RefRowZeros(i) = n) => o.type = "row" /\ o.zeroCount = n
        /\ best = 0 => o = [type |-> "row", index |-> 1, zeroCount |-> 0]
        /\ steps[2].row = (IF o.type = "row" THEN o.index ELSE 0)
        /\ steps[2].col = (IF o.type = "column" THEN o.index ELSE 0)

C15_Witness ==
  /\ entry = "LaplaceExpansionFractions.calculateDeterminant"
  /\ Len(matrix) = 3
  /\ ChosenAxis = [type |-> "column", index |-> 2, zeroCount |-> 2]
  /\ steps[2].col = 2
  /\ RefRowZeros(1) = 1 /\ RefRowZeros(3) = 1

\* The steps that show a minor of size 3 or more, by their place in the
\* trace.
MinorSteps ==
  {k \in 1..(Len(steps) - 1) :
     /\ steps[k].title \in {"Menor Resultante", "Menor"}
     /\ Len(steps[k].matrix) >= 3}

\* The step that opens the expansion of a matrix along the axis o.
OpensAlong(step, o) ==
  /\ step.title \in (IF o.type = "row"
                      THEN {"Formula de Expansion por Fila", "Expansion por Fila"}
                      ELSE {"Formula de Expansion por Columna"})
  /\ step.row = (IF o.type = "row" THEN o.index ELSE 0)
  /\ step.col = (IF o.type = "column" THEN o.index ELSE 0)

(***************************************************************************)
(* C16.  Every minor of size 3 or more met during the cofactor expansion   *)
(* is expanded along its own optimal axis: the expansion that follows the  *)
(* minor in the trace has the type and the index that                      *)
(* findOptimalExpansionRowOrColumn selects for that minor, whatever the    *)
(* axis of its parent.                                                     *)
(***************************************************************************)
C16_MinorOwnAxis ==
  entry \in {"LaplaceExpansion.calculateDeterminant",
             "LaplaceExpansionFractions.calculateDeterminant"} =>
    \A k \in MinorSteps :
      /\ steps[k + 1].matrix = steps[k].matrix
      /\ OpensAlong(steps[k + 1],
                    LaplaceExpansion_findOptimalExpansionRowOrColumn(steps[k].matrix))

\* The entries of the axis chosen for the caller's matrix.
AxisCells ==
  {IF ChosenAxis.type = "row" THEN <<ChosenAxis.index, k>>
                              ELSE <<k, ChosenAxis.index>> : k \in 1..Len(matrix)}

\* The steps of the trace about entry `at` that carry one of the titles.
StepsAt(titles, at) ==
  {k \in 1..Len(steps) :
     steps[k].title \in titles /\ steps[k].row = at[1] /\ steps[k].col = at[2]}

(***************************************************************************)
(* C17.  In both cofactor engines, along a row or a column, every entry of *)
(* the chosen axis is accounted for in the trace: a zero entry has one     *)
(* skipped-term step and no minor, a nonzero entry has a minor step, a     *)
(* cofactor step and a contribution step, and every base case reached has  *)
(* one terminal step.  Stated for a matrix of size 3, whose minors are the *)
(* base cases.                                                             *)
(***************************************************************************)
C17_AxisAccounted ==
  (/\ entry \in {"LaplaceExpansion.calculateDeterminant",
                 "LaplaceExpansionFractions.calculateDeterminant"}
   /\ Len(matrix) = 3) =>
    /\ \A at \in AxisCells :
         IF matrix[at[1]][at[2]] = Num(0)
         THEN /\ Cardinality(StepsAt({"Termino Omitido", "Termino = 0"}, at)) = 1
              /\ StepsAt({"Calculo de Menor", "Menor Resultante", "Menor", "Cofactor",
                          "Contribucion", "Contribucion del Termino"}, at) = {}
         ELSE /\ Cardinality(StepsAt({"Menor Resultante", "Menor"}, at)) = 1
              /\ Cardinality(StepsAt({"Cofactor"}, at)) = 1
              /\ Cardinality(StepsAt({"Contribucion", "Contribucion del Termino"}, at)) = 1
              /\ StepsAt({"Termino Omitido", "Termino = 0"}, at) = {}
    /\ Cardinality({k \in 1..Len(steps) : steps[k].title = "Determinante 2x2"})
         = Cardinality({at \in AxisCells : matrix[at[1]][at[2]] # Num(0)})

\* The titles of the steps that explain a degenerate outcome.
ExplanatoryTitles ==
  {"Sistema Inconsistente", "Sistema con Infinitas Soluciones", "Sistema Singular",
   "Determinante = 0", "Determinante Cero"}

\* The columns an elimination determinant found without a pivot: zero at
\* and below the diagonal in the last recorded working matrix, the columns
\* before them eliminated.  The floating and rational Gaussian engines look
\* at the columns before the last, GaussJordanDeterminant at all of them.
DetZeroPivotColumns ==
  LET n == Len(matrix)
      w == steps[Len(steps)].matrix
      scanned == IF entry = "GaussJordanDeterminant.calculateDeterminant"
                 THEN 1..n ELSE 1..(n - 1)
  IN  {i \in scanned :
         /\ \A k \in i..n : w[k][i] = Num(0)
         /\ \A c \in 1..(i - 1) :
               w[c][c] # Num(0) /\ \A k \in (c + 1)..n : w[k][c] = Num(0)}

(***************************************************************************)
(* C18.  Whenever a solver returns hasNoSolution or hasInfiniteSolutions,  *)
(* or an elimination determinant returns 0 because of a zero pivot column, *)
(* the last step of the returned trace is the explanatory step of that     *)
(* outcome, after every elimination or expansion step of the run.          *)
(***************************************************************************)
C18_DegenerateExplained ==
  /\ (/\ result.kind = "solution"
      /\ ~result.thrown
      /\ result.hasNoSolution \/ result.hasInfiniteSolutions) =>
        /\ steps[Len(steps)].title \in ExplanatoryTitles
        /\ \A k \in 1..(Len(steps) - 1) : steps[k].title \notin ExplanatoryTitles
  /\ (/\ entry \in {"GaussianElimination.calculateDeterminant",
                     "GaussianEliminationFractions.calculateDeterminant",
                     "GaussJordanDeterminant.calculateDeterminant"}
      /\ result.determinant = Num(0)
      /\ DetZeroPivotColumns # {}) =>
        steps[Len(steps)].title \in {"Determinante = 0", "Determinante Cero"}

C20_NotInvertible ==
  entry = "MatrixInverse.calculateInverse" =>
    /\ ~result.isInvertible <=> RefDet(IntMatrix(matrix)) = 0
    /\ ~result.isInvertible <=> result.determinant = Num(0)
    /\ ~result.isInvertible =>
          /\ result.inverseMatrix = <<>>
          /\ result.adjugateMatrix = <<>>
          /\ \A k \in 1..Len(steps) :
                steps[k].title \notin {"Calculo de Cofactores", "Cofactor C",
                                       "Matriz de Cofactores Completa", "Matriz Adjunta",
                                       "Matriz Inversa"}
          /\ steps[Len(steps)].title = "Matriz No Invertible"
          /\ \A k \in 1..(Len(steps) - 1) : steps[k].title # "Matriz No Invertible"

C20_Witness ==
  /\ entry = "MatrixInverse.calculateInverse"
  /\ Len(matrix) = 3
  /\ \A i, j \in 1..3 : matrix[i][j] # Num(0)
  /\ ~result.isInvertible
  /\ Len(steps) = 3
  /\ steps[3].title = "Matriz No Invertible"

\* The product of the diagonal of the working matrix w.
RECURSIVE RefDiagonal(_, _)
RefDiagonal(w, i) ==
  IF i > Len(w) THEN Num(1) ELSE NumMul(w[i][i], RefDiagonal(w, i + 1))

\* The row exchanges the trace records.
SwapSteps == {k \in 1..Len(steps) : steps[k].title = "Intercambio de Filas"}

(***************************************************************************)
(* C21.  The elimination determinants (floating, rational, Gauss-Jordan)   *)
(* return the product of the diagonal of the final working matrix times    *)
(* (-1)^s, s the number of row exchanges, each recorded by one step; that  *)
(* value is the determinant of the matrix.  A pivot column that is zero at *)
(* and below the diagonal gives 0 and ends the run at once.                *)
(***************************************************************************)
C21_DiagonalProduct ==
  entry \in {"GaussianElimination.calculateDeterminant",
             "GaussianEliminationFractions.calculateDeterminant",
             "GaussJordanDeterminant.calculateDeterminant"} =>
    LET last == steps[Len(steps)]
        stopped == last.title \in {"Determinante = 0", "Determinante Cero"}
    IN  /\ result.determinant = Num(RefDet(IntMatrix(matrix)))
        /\ stopped <=> DetZeroPivotColumns # {}
        /\ stopped => result.determinant = Num(0)
        /\ ~stopped =>
              /\ last.title = "Determinante Final"
              /\ result.determinant =
                   NumMul(Num(IF Cardinality(SwapSteps) % 2 = 1 THEN -1 ELSE 1),
                          RefDiagonal(last.matrix, 1))
        /\ \A k \in 1..(Len(steps) - 1) :
              steps[k].title \notin {"Determinante = 0", "Determinante Cero",
                                     "Determinante Final"}

C21_Witness ==
  /\ entry = "GaussianElimination.calculateDeterminant"
  /\ Len(matrix) = 3
  /\ Cardinality(SwapSteps) = 1
  /\ result.determinant # Num(0)
  /\ result.determinant = NumNeg(RefDiagonal(steps[Len(steps)].matrix, 1))

\* A step in which an operation returned: the caller's record of the last
\* call or of its value changes.
Returned == entry' # entry \/ fr' # fr

(***************************************************************************)
(* C22.  new Fraction(n, 0) raises an error and a.divide(b) raises an      *)
(* error whenever b is zero; no Fraction is produced then, and the         *)
(* operands a and b are left as they were.                                 *)
(***************************************************************************)
C22_DivisionByZeroRaises ==
  /\ [](\A n \in (-MaxFrac)..MaxFrac :
          /\ isThrown(Fraction(n, 0))
          /\ \A d \in ((-MaxFrac)..MaxFrac) \ {0} : ~isThrown(Fraction(n, d)))
  /\ [][/\ (Returned /\ entry' = "new Fraction") => fa' = fa /\ fb' = fb
        /\ (Returned /\ entry' = "divide") =>
             /\ isThrown(fr') <=> fb.numerator = 0
             /\ fa' = fa /\ fb' = fb]_vars

C22_Witness ==
  /\ entry = "divide"
  /\ fa = [numerator |-> 3, denominator |-> 4]
  /\ fb = [numerator |-> 0, denominator |-> 1]
  /\ isThrown(fr)

(***************************************************************************)
(* C23.  No operation modifies the matrix or the vector it is given: the   *)
(* entries of the argument are the same after any call of a primitive      *)
(* (cloneMatrix, cloneVector, swapRows, multiplyRow, addRowMultiple,       *)
(* getMinor, of MatrixMath and of FractionMatrixUtils) or of an entry      *)
(* point, and after any store into a clone that was returned.              *)
(***************************************************************************)
C23_ArgumentsUnchanged == [][matrix' = matrix /\ constants' = constants]_vars

C23_Witness ==
  /\ entry = "MatrixMath.addRowMultiple"
  /\ Len(matrix) = 2
  /\ writes = 1
  /\ \A i \in 1..2 : result.rows[i] # matrix[i]

(***************************************************************************)
(* C24.  After any sequence of events on the page (size changes, a cleared *)
(* or non-numeric size field included, cell edits, random example, clear,  *)
(* mode and method changes) the size is a whole number from 2 to 6, the    *)
(* matrix is size x size and the constants have length size.               *)
(***************************************************************************)
C24_SizeInRange ==
  /\ size \in NumSet(2..6)
  /\ Len(matrix) = size.numerator
  /\ \A i \in 1..Len(matrix) : Len(matrix[i]) = size.numerator
  /\ Len(constants) = size.numerator

\* a . x in exact arithmetic, a a matrix and x a vector of Fractions
RefApply(a, x) ==
  LET RECURSIVE Sum(_, _)
      Sum(i, k) == IF k > Len(x) THEN Fraction(0, 1)
                   ELSE add(multiply(a[i][k], x[k]), Sum(i, k + 1))
  IN  [i \in 1..Len(a) |-> Sum(i, 1)]

ForwardTitles == {"Intercambio de Filas", "Normalizar Pivote", "Eliminacion hacia Adelante"}

\* The steps of the trace that the forward phase recorded, the first included.
ForwardSteps == {k \in 1..Len(steps) : steps[k].title # "Eliminacion hacia Atras"}

UpperUnit(m) ==
  \A i \in 1..Len(m) : \A j \in 1..Len(m) :
     /\ (i = j => m[i][j] = Num(1))
     /\ (i > j => m[i][j] = Num(0))

(***************************************************************************)
(* C25.  On a nonsingular integer matrix and any constants,                *)
(* GaussJordanFractions.solve returns isUnique; the coefficient block of   *)
(* the working matrix it ends with is the identity; every step of the      *)
(* forward phase precedes every step of the backward phase, and the block  *)
(* the forward phase leaves is upper triangular with unit diagonal; the    *)
(* returned variables are the rightmost column and satisfy A x = b exactly.*)
(***************************************************************************)
C25_GaussJordanSolves ==
  (entry = "GaussJordanFractions.solve" /\ RefDet(IntMatrix(matrix)) # 0) =>
    LET n == Len(matrix)
        w == GaussJordanFractions_solve(matrix, constants).w
        x == [i \in 1..n |-> w[i][n + 1]]
    IN  /\ ~result.thrown /\ result.isUnique
        /\ ~result.hasInfiniteSolutions /\ ~result.hasNoSolution
        /\ FractionMatrixUtils_toNumberMatrix(CoefficientPart(w))
             = MatrixMath_createIdentityMatrix(n)
        /\ steps[Len(steps)].matrix = MatrixMath_createIdentityMatrix(n)
        /\ \A k \in 2..Len(steps) :
              steps[k].title \in ForwardTitles \cup {"Eliminacion hacia Atras"}
        /\ \A k \in ForwardSteps : \A l \in 1..Len(steps) :
              steps[l].title = "Eliminacion hacia Atras" => k < l
        /\ \A k \in ForwardSteps :
              (\A l \in ForwardSteps : l <= k) => UpperUnit(steps[k].matrix)
        /\ result.variables = FractionMatrixUtils_toNumberVector(x)
        /\ RefApply(FractionMatrixUtils_fromNumberMatrix(matrix), x)
             = FractionMatrixUtils_fromNumberVector(constants)

C25_Witness ==
  /\ entry = "GaussJordanFractions.solve"
  /\ matrix = NumMatrix(<<<<0, 1, 1>>, <<1, 1, 0>>, <<1, 0, 1>>>>)
  /\ constants = NumVector(<<1, 0, 1>>)
  /\ result.isUnique
  /\ \E k \in 1..Len(steps) : steps[k].title = "Intercambio de Filas"
  /\ \E k \in 1..Len(steps) : steps[k].title = "Normalizar Pivote"
  /\ \E k \in 1..Len(steps) : steps[k].title = "Eliminacion hacia Atras"

PlainGaussianSolvers == {"GaussianElimination.solve", "GaussianEliminationFractions.solve"}

\* The returned variables are finite numbers x with A x = b.
VariablesSolve ==
  /\ Len(result.variables) = Len(matrix)
  /\ \A i \in 1..Len(result.variables) : isFinite(result.variables[i])
  /\ RefApply(FractionMatrixUtils_fromNumberMatrix(matrix),
              [i \in 1..Len(matrix) |->
                 Fraction(result.variables[i].numerator,
                          result.variables[i].denominator)])
       = FractionMatrixUtils_fromNumberVector(constants)

(***************************************************************************)
(* C26.  The classification a plain Gaussian solver (floating or rational) *)
(* returns agrees with the ranks: isUnique exactly when rank A = n, and    *)
(* then the variables are finite and satisfy A x = b; hasNoSolution        *)
(* exactly when rank A < rank [A|b]; hasInfiniteSolutions exactly when     *)
(* rank A = rank [A|b] < n.                                                *)
(***************************************************************************)
C26_ClassifiedByRank ==
  (entry \in PlainGaussianSolvers /\ ~result.thrown) =>
    /\ result.isUnique <=> RankA = Len(matrix)
    /\ result.isUnique => VariablesSolve
    /\ result.hasNoSolution <=> RankA < RankAb
    /\ result.hasInfiniteSolutions <=> (RankA = RankAb /\ RankA < Len(matrix))

ExactSolvers == {"LaplaceExpansionFractions.solveByCramersRule", "GaussJordanFractions.solve"}

\* det(A_i) / det(A), A_i being A with column i replaced by b, for each i
RefCramer ==
  LET a == IntMatrix(matrix)
      b == [i \in 1..Len(constants) |-> constants[i].numerator]
      Ai(i) == [r \in 1..Len(a) |-> [c \in 1..Len(a) |-> IF c = i THEN b[r] ELSE a[r][c]]]
  IN  [i \in 1..Len(a) |-> toDecimal(Fraction(RefDet(Ai(i)), RefDet(a)))]

(***************************************************************************)
(* C27.  On a nonsingular integer matrix A and any constants b,            *)
(* LaplaceExpansionFractions.solveByCramersRule and                        *)
(* GaussJordanFractions.solve return the same exact solution: whichever of *)
(* the two was called returned what the other returns on the same system,  *)
(* and its component i is det(A_i) / det(A), A_i being A with column i     *)
(* replaced by b.                                                          *)
(***************************************************************************)
C27_CramerIsGaussJordan ==
  (entry \in ExactSolvers /\ RefDet(IntMatrix(matrix)) # 0) =>
    /\ result.isUnique
    /\ result.variables = RefCramer
    /\ entry = "GaussJordanFractions.solve" =>
         result.variables =
           LaplaceExpansionFractions_solveByCramersRule(matrix, constants).solution.variables
    /\ entry = "LaplaceExpansionFractions.solveByCramersRule" =>
         result.variables =
           GaussJordanFractions_solve(matrix, constants).solution.variables

C27_Witness ==
  /\ entry = "LaplaceExpansionFractions.solveByCramersRule"
  /\ matrix = NumMatrix(<<<<0, 1, 1>>, <<1, 1, 0>>, <<1, 0, 1>>>>)
  /\ constants = NumVector(<<1, 0, 1>>)
  /\ result.isUnique
  /\ result.variables = <<Num(0), Num(0), Num(1)>>
  /\ GaussJordanFractions_solve(matrix, constants).solution.variables = result.variables

(***************************************************************************)
(* C28.  A Solution that carries a determinant carries the determinant of  *)
(* the coefficient matrix the solver was given.                            *)
(***************************************************************************)
C28_SolutionDeterminant ==
  (result.kind = "solution" /\ ~result.thrown /\ result.hasDeterminant) =>
    result.determinant = Num(RefDet(IntMatrix(matrix)))

\* a and b denote the same rational value.
SameValue(a, b) == a.numerator * b.denominator = b.numerator * a.denominator

(***************************************************************************)
(* C29.  For the Fractions a and b a caller holds: a + b = b + a and       *)
(* a * b = b * a; (a + b) - b equals a; for b not zero (a * b) / b equals  *)
(* a; a.equals(b) exactly when a and b denote the same rational value      *)
(* (cross products equal); exactly one of a.lessThan(b), a.equals(b) and   *)
(* b.lessThan(a) holds.                                                    *)
(***************************************************************************)
C29_FractionAlgebra ==
  LET a == fa
      b == fb
  IN  (~isThrown(a) /\ ~isThrown(b)) =>
        /\ equals(add(a, b), add(b, a))
        /\ equals(multiply(a, b), multiply(b, a))
        /\ equals(subtract(add(a, b), b), a)
        /\ ~isZero(b) => /\ ~isThrown(divide(multiply(a, b), b))
                         /\ equals(divide(multiply(a, b), b), a)
        /\ equals(a, b) <=> SameValue(a, b)
        /\ Cardinality({k \in 1..3 : \/ k = 1 /\ lessThan(a, b)
                                     \/ k = 2 /\ equals(a, b)
                                     \/ k = 3 /\ lessThan(b, a)}) = 1

C29_Witness ==
  /\ fa = Fraction(3, 4)
  /\ fb = Fraction(-2, 3)
  /\ entry = "add"
  /\ fr = Fraction(1, 12)

(***************************************************************************)
(* The step playback (src/components/StepsVisualizer.tsx) on the page: the *)
(* Calcular button replaces the steps, the visualizer keeps currentStep    *)
(* and isPlaying for as long as it stays rendered.                         *)
(***************************************************************************)
\* The animation effect, run after a render with the given isPlaying,
\* currentStep and steps.length: the value isPlaying has once it ran.  The
\* timer is pending exactly when this value is TRUE.
AnimationEffect(playing, current, length) == playing /\ current < length

Mounted == Len(steps) > 0

\* The steps and the result calculate() sets, for the mode and the method
\* of the page.
calculateOutcome ==
  IF mode = "determinant"
  THEN IF method = "laplace"
       THEN CHOOSE value \in
              {[name |-> "LaplaceExpansion.calculateDeterminant",
                steps |-> r.steps,
                result |-> [DeterminantResult(r.determinant)
                              EXCEPT !.expansionFormula = r.expansionFormula]] :
                 r \in {LaplaceExpansion_calculateDeterminant(matrix)}} : TRUE
       ELSE CHOOSE value \in
              {[name |-> "GaussJordanDeterminant.calculateDeterminant",
                steps |-> r.steps,
                result |-> DeterminantResult(r.determinant)] :
                 r \in {GaussJordanDeterminant_calculateDeterminant(matrix)}} : TRUE
  ELSE IF mode = "system"
  THEN IF method = "gauss-jordan"
       THEN CHOOSE value \in
              {[name |-> "GaussJordanFractions.solve",
                steps |-> r.steps,
                result |-> SolutionResult(r.solution)] :
                 r \in {GaussJordanFractions_solve(matrix, constants)}} : TRUE
       ELSE [name |-> "none",
             steps |-> <<Step(1, "Informacion", matrix, "input", 0, 0)>>,
             result |-> NoResult]
  ELSE CHOOSE value \in
         {[name |-> "MatrixInverse.calculateInverse",
           steps |-> r.steps,
           result |-> InverseResultOf(r.result)] :
            r \in {MatrixInverse_calculateInverse(matrix)}} : TRUE

\* The Calcular button.  A visualizer that was rendered stays rendered and
\* keeps its state; one that was not starts at step 1, paused.
calculate ==
  /\ \E outcome \in {calculateOutcome} :
        /\ entry' = outcome.name
        /\ steps' = outcome.steps
        /\ result' = outcome.result
  /\ currentStep' = IF Mounted /\ Len(steps') > 0 THEN currentStep ELSE 1
  /\ isPlaying' = IF Mounted
                  THEN AnimationEffect(isPlaying, currentStep', Len(steps'))
                  ELSE FALSE
  /\ UNCHANGED <<matrix, constants, writes, fa, fb, fr, size, mode, method>>

Playback(current, playing) ==
  /\ Mounted
  /\ currentStep' = current
  /\ isPlaying' = AnimationEffect(playing, current, Len(steps))
  /\ UNCHANGED <<matrix, constants, entry, steps, result, writes, fa, fb, fr,
                 size, mode, method>>

handlePlay == Playback(currentStep, TRUE)

handlePause == Playback(currentStep, FALSE)

handleNext ==
  Playback(IF currentStep < Len(steps) THEN currentStep + 1 ELSE currentStep, isPlaying)

handlePrevious ==
  Playback(IF currentStep > 1 THEN currentStep - 1 ELSE currentStep, isPlaying)

handleReset == Playback(1, FALSE)

\* The timer the effect set fires: setCurrentStep(prev => prev + 1).
TimerFires ==
  /\ AnimationEffect(isPlaying, currentStep, Len(steps))
  /\ Playback(currentStep + 1, isPlaying)

\* The systems the page starts with: generated ones with constants 9.
PlaybackExamples == {example \in RandomExamples(3) : example.newConstants[1] = Num(9)}

InitPlayback ==
  /\ \E example \in PlaybackExamples :
        /\ matrix = example.newMatrix
        /\ constants = example.newConstants
  /\ Idle

NextPlayback ==
  \/ calculate
  \/ SetMode
  \/ SetMethod
  \/ clearMatrix
  \/ handlePlay
  \/ handlePause
  \/ handleNext
  \/ handlePrevious
  \/ handleReset
  \/ TimerFires

SpecPlayback == InitPlayback /\ [][NextPlayback]_vars

(***************************************************************************)
(* C30.  While the StepsVisualizer is rendered, whatever play, pause,      *)
(* next, previous, reset, timer ticks and recalculations came before,      *)
(* 1 <= currentStep <= steps.length; and the timer fires only while        *)
(* isPlaying is true and currentStep < steps.length, and then advances     *)
(* currentStep by exactly one.                                             *)
(***************************************************************************)
C30_CurrentStepInRange ==
  /\ [](Mounted => (1 <= currentStep /\ currentStep <= Len(steps)))
  /\ [][TimerFires => /\ isPlaying
                      /\ currentStep < Len(steps)
                      /\ currentStep' = currentStep + 1]_vars

====
